---- MODULE Spec2Model ----
(***************************************************************************)
(* TunnelAI-Lab: the safety-constraint engine (constraint_layer/sti_rules),*)
(* the fan hysteresis controller, the traffic and emission step functions  *)
(* and the stream generator, as state machines.                            *)
(*                                                                         *)
(* Python dicts are functions whose DOMAIN is the key set; Optional[x] is  *)
(* a set holding at most one element ({} is None).  Tag values are tagged  *)
(* records: a finite float in tenths (605 is 60.5), a non-finite float, or *)
(* a value float() cannot parse.                                           *)
(***************************************************************************)
EXTENDS Integers, Sequences, FiniteSets, TLC

VARIABLES
    constraints,    \* STIEngine.constraints
    prev_filtered,  \* STIEngine.prev_filtered (Optional[dict])
    call,           \* the last call made on the engine and its arguments
    ret,            \* what the last returning call handed back (Optional)
    fan,            \* the fan controller: its stage and the last call made
    traffic,        \* a TrafficState being stepped, and the number of steps
    emis,           \* an EmissionState being stepped, and the number of steps
    stream,         \* a Scenario, t0 and the generate_stream runs started from them
    rngs,           \* the random sources the runs draw their noise from
    shared,         \* one STIEngine stepped by two control loops
    probe,          \* a Scenario, a second, and the capacity factor asked for it
    playback,       \* a PlaybackEngine: its meta, its PlaybackState and the last frame returned
    twice,          \* filter_recommendation applied to a proposal and again to its own result
    log,            \* what each call made on one STIEngine handed back, oldest first
    control,        \* a PlaybackEngine driven by direct calls and by control messages, in floats
    manager         \* a PlaybackManager: its sessions and the last get_or_create call

sti_vars == <<constraints, prev_filtered, call, ret>>
fan_vars == <<fan>>
traffic_vars == <<traffic>>
emis_vars == <<emis>>
stream_vars == <<stream, rngs>>
shared_vars == <<shared>>
probe_vars == <<probe>>
playback_vars == <<playback>>
twice_vars == <<twice>>
log_vars == <<log>>
control_vars == <<control>>
manager_vars == <<manager>>

vars == <<constraints, prev_filtered, call, ret, fan, traffic, emis, stream, rngs, shared, probe, playback, twice, log, control, manager>>

(***************************************************************************)
(* Bounds of the model                                                     *)
(***************************************************************************)
MaxProposedStage == 4
MaxStepRate == 2
MaxTrafficSteps == 3
MaxEmisSteps == 2
MaxDuration == 3
MaxCalls == 3

(***************************************************************************)
(* Small helpers                                                           *)
(***************************************************************************)
Max(a, b) == IF a >= b THEN a ELSE b
Min(a, b) == IF a <= b THEN a ELSE b
Abs(x) == IF x < 0 THEN -x ELSE x

EmptyDict == [k \in {} |-> 0]
Put(d, k, v) == [x \in (DOMAIN d) \cup {k} |-> IF x = k THEN v ELSE d[x]]

\* a tag value: finite float in tenths / non-finite float / unparsable
Num(tenths) == [kind |-> "num", val |-> tenths]
NaN == [kind |-> "nan", val |-> 0]
Unparsable == [kind |-> "str", val |-> 0]

\* Python int(float): truncation toward zero (the float is held in tenths)
IntOfFloat(tenths) == IF tenths >= 0 THEN tenths \div 10 ELSE -((-tenths) \div 10)

(***************************************************************************)
(* sti_rules.py: helpers                                                   *)
(***************************************************************************)
\* mutant: a value float() rejects read as 1.0 instead of the default
GetFloatUnparsableAsOne(tags, key, default) ==
    IF key \notin DOMAIN tags THEN Num(default)
    ELSE IF tags[key].kind = "str" THEN Num(10)
    ELSE tags[key]

\* _get_float(tags, key, default): the float read, default in tenths
_get_float(tags, key, default) ==
    IF key \notin DOMAIN tags THEN Num(default)
    ELSE IF tags[key].kind = "str" THEN Num(default)
    ELSE tags[key]

\* `x >= threshold` on floats: false for NaN
FloatGE(x, threshold) == x.kind = "num" /\ x.val >= threshold

_any_true(tags, keys, threshold) ==
    \E i \in 1..Len(keys) : FloatGE(_get_float(tags, keys[i], 0), threshold)

derive_state(current_tags) ==
    [incident_active |->
        _any_true(current_tags, <<"Z2.EVENT.IncidentFlag", "Z3.EVT.Incident.Active">>, 5),
     jam_active |->
        _any_true(current_tags, <<"Z3.EVT.Jam.Active", "Z3.TRAF.STATE.Tunnel.JamDetected">>, 5),
     co_warn |-> _any_true(current_tags, <<"Z3.ENV.ALARM.CO.Warn">>, 5),
     co_alarm |-> _any_true(current_tags, <<"Z3.ENV.ALARM.CO.Alarm">>, 5),
     vis_alarm |-> _any_true(current_tags, <<"Z3.ENV.ALARM.Visibility.Alarm">>, 5)]

\* the float R1 converts with int(): the legacy tag first, then the VMS setpoint
CurrentLimitFloat(current_tags) ==
    IF "Z2.VMS.SpeedLimit" \in DOMAIN current_tags
    THEN _get_float(current_tags, "Z2.VMS.SpeedLimit", 800)
    ELSE IF "Z1.VMS.SIGN.V01.SpeedSet" \in DOMAIN current_tags
    THEN _get_float(current_tags, "Z1.VMS.SIGN.V01.SpeedSet", 800)
    ELSE Num(800)

\* R1 is entered: the only place where int() meets a tag value
R1Applies(rec, current_tags, c) ==
    /\ derive_state(current_tags).incident_active
    /\ c.incident_no_speed_increase
    /\ "vms_speed" \in DOMAIN rec

\* int() of a non-finite float raises (ValueError / OverflowError)
FilterRaises(rec, current_tags, c) ==
    R1Applies(rec, current_tags, c) /\ CurrentLimitFloat(current_tags).kind = "nan"

CurrentLimit(current_tags) == IntOfFloat(CurrentLimitFloat(current_tags).val)

(***************************************************************************)
(* sti_rules.py: filter_recommendation, rule by rule.  The running state   *)
(* of one evaluation is st = [out, violations, changed, triggers].         *)
(***************************************************************************)
\* mutant: the before and after values of the changed pair exchanged
TriggerChangedReversed(rule_id, severity, message, evidence, changed) ==
    [rule_id |-> rule_id, severity |-> severity, message |-> message,
     evidence |-> evidence,
     changed |-> [k \in DOMAIN changed |-> <<changed[k][2], changed[k][1]>>]]

Trigger(rule_id, severity, message, evidence, changed) ==
    [rule_id |-> rule_id, severity |-> severity, message |-> message,
     evidence |-> evidence, changed |-> changed]


\* mutant: the comparison of R1 turned around
RaisesSpeedReversed(proposed, current_limit) == proposed < current_limit

\* `if proposed > current_limit` of R1
RaisesSpeed(proposed, current_limit) == proposed > current_limit

\* R1: incident => no speed increase
RuleIncidentNoSpeedIncrease(st, current_tags, c) ==
    IF R1Applies(st.out, current_tags, c)
    THEN LET current_limit == CurrentLimit(current_tags)
             proposed == st.out["vms_speed"]
         IN  IF RaisesSpeed(proposed, current_limit)
             THEN [out |-> [st.out EXCEPT !["vms_speed"] = current_limit],
                   violations |-> Append(st.violations, "INCIDENT_NO_SPEED_INCREASE"),
                   changed |-> Put(st.changed, "vms_speed_incident", <<proposed, current_limit>>),
                   triggers |-> Append(st.triggers,
                       Trigger("R_INCIDENT_NO_SPEED_INCREASE", "critical",
                               "During incident: speed increase is not allowed.",
                               [proposed_vms_speed |-> proposed, current_speed_limit |-> current_limit],
                               [vms_speed |-> <<proposed, current_limit>>]))]
             ELSE st
    ELSE st

\* mutant: the upper end of the band taken 20 km/h too low
ClampVmsLowCeiling(v, c) == Max(c.min_vms_speed_kmh, Min(c.max_vms_speed_kmh - 20, v))

\* v2 = max(c.min_vms_speed_kmh, min(c.max_vms_speed_kmh, v))
ClampVms(v, c) == Max(c.min_vms_speed_kmh, Min(c.max_vms_speed_kmh, v))

\* R2: clamp VMS band
RuleVmsClamp(st, c) ==
    IF "vms_speed" \in DOMAIN st.out
    THEN LET v == st.out["vms_speed"]
             v2 == ClampVms(v, c)
         IN  IF v2 # v
             THEN [out |-> [st.out EXCEPT !["vms_speed"] = v2],
                   violations |-> Append(st.violations, "VMS_CLAMP"),
                   changed |-> Put(st.changed, "vms_speed", <<v, v2>>),
                   triggers |-> Append(st.triggers,
                       Trigger("R_VMS_CLAMP", "high",
                               "VMS speed setpoint clamped to allowed band.",
                               [proposed_vms_speed |-> v, min |-> c.min_vms_speed_kmh,
                                max |-> c.max_vms_speed_kmh],
                               [vms_speed |-> <<v, v2>>]))]
             ELSE st
    ELSE st


\* mutant: the comparison with the incident minimum turned around
BelowIncidentMinReversed(f, incident, c) ==
    incident /\ c.incident_min_fan_stage > 0 /\ f > c.incident_min_fan_stage

\* the guard of the incident minimum in R3
BelowIncidentMin(f, incident, c) ==
    incident /\ c.incident_min_fan_stage > 0 /\ f < c.incident_min_fan_stage

\* R3, first half: minimum fan stage during an incident.  Returns the
\* state and the local f (out["fan_stage"] is not written here).
RuleIncidentMinFan(st, incident, c) ==
    LET f == st.out["fan_stage"]
    IN  IF BelowIncidentMin(f, incident, c)
        THEN [f |-> c.incident_min_fan_stage,
              st |-> [out |-> st.out,
                      violations |-> Append(st.violations, "INCIDENT_MIN_FAN_STAGE"),
                      changed |-> Put(st.changed, "fan_stage_incident_min",
                                      <<f, c.incident_min_fan_stage>>),
                      triggers |-> Append(st.triggers,
                          Trigger("R_INCIDENT_MIN_FAN_STAGE", "high",
                                  "During incident: minimum fan stage enforced.",
                                  [proposed_fan_stage |-> st.out["fan_stage"],
                                   incident_min_fan_stage |-> c.incident_min_fan_stage],
                                  [fan_stage |-> <<st.out["fan_stage"], c.incident_min_fan_stage>>]))]]
        ELSE [f |-> f, st |-> st]

\* mutant: the ceiling of the fan clamp forgotten
ClampFanNoCeiling(f, c) == Max(0, f)

\* f2 = max(0, min(c.max_fan_stage, f))
ClampFan(f, c) == Max(0, Min(c.max_fan_stage, f))

\* R3, second half: clamp the fan stage to [0, max_fan_stage]
RuleFanClamp(st, f, c) ==
    LET f2 == ClampFan(f, c)
    IN  IF f2 # f
        THEN [out |-> [st.out EXCEPT !["fan_stage"] = f2],
              violations |-> Append(st.violations, "FAN_CLAMP"),
              changed |-> Put(st.changed, "fan_stage", <<f, f2>>),
              triggers |-> Append(st.triggers,
                  Trigger("R_FAN_CLAMP", "high",
                          "Fan stage clamped to allowed maximum.",
                          [proposed_fan_stage |-> f, max_fan_stage |-> c.max_fan_stage],
                          [fan_stage |-> <<f, f2>>]))]
        ELSE [st EXCEPT !.out = [st.out EXCEPT !["fan_stage"] = f2]]

\* `if prev_rec and "fan_stage" in prev_rec`: None and {} are both falsy
HasPrevFan(prev_rec) ==
    \E d \in prev_rec : DOMAIN d # {} /\ "fan_stage" \in DOMAIN d

PrevFan(prev_rec) == (CHOOSE d \in prev_rec : TRUE)["fan_stage"]


\* mutant: the abs() of the ramp test forgotten
RampExceededNoAbs(f, prev_f, c) == (f - prev_f) > c.max_fan_step_per_s

\* abs(out["fan_stage"] - prev_f) > c.max_fan_step_per_s
RampExceeded(f, prev_f, c) == Abs(f - prev_f) > c.max_fan_step_per_s

\* mutant: the change limited to one stage whatever the rate
RampLimitedOneStage(f, prev_f, c) == prev_f + (IF f > prev_f THEN 1 ELSE -1)

\* mutant: the change limited to max_fan_step_per_s away from the proposal
RampLimitedFromProposal(f, prev_f, c) ==
    f - c.max_fan_step_per_s * (IF f > prev_f THEN 1 ELSE -1)

\* limited = prev_f + c.max_fan_step_per_s * (1 if out["fan_stage"] > prev_f else -1)
RampLimited(f, prev_f, c) ==
    prev_f + c.max_fan_step_per_s * (IF f > prev_f THEN 1 ELSE -1)

\* R4: ramp-rate limit of the fan stage change
RuleFanRampRate(st, prev_rec, c) ==
    IF HasPrevFan(prev_rec)
    THEN LET prev_f == PrevFan(prev_rec)
             f == st.out["fan_stage"]
         IN  IF RampExceeded(f, prev_f, c)
             THEN LET limited == RampLimited(f, prev_f, c)
                  IN  [out |-> [st.out EXCEPT !["fan_stage"] = limited],
                       violations |-> Append(st.violations, "FAN_RAMP_RATE"),
                       changed |-> Put(st.changed, "fan_stage_ramp", <<f, limited>>),
                       triggers |-> Append(st.triggers,
                           Trigger("R_FAN_RAMP_RATE", "warning",
                                   "Fan ramp rate limited (stage/s).",
                                   [prev_fan_stage |-> prev_f,
                                    proposed_after_clamp |-> PrevFan(prev_rec),
                                    max_step_per_s |-> c.max_fan_step_per_s],
                                   [fan_stage |-> <<f, limited>>]))]
             ELSE st
    ELSE st

\* the `if "fan_stage" in out:` block: R3 (incident minimum, clamp), then R4
FanClampAfterMin(m, c) == RuleFanClamp(m.st, m.f, c)

RuleFanStage(st, incident, prev_rec, c) ==
    IF "fan_stage" \in DOMAIN st.out
    THEN RuleFanRampRate(FanClampAfterMin(RuleIncidentMinFan(st, incident, c), c), prev_rec, c)
    ELSE st

\* return out, audit
FilterResult(st) ==
    [out |-> st.out,
     audit |-> [violations |-> st.violations, changed |-> st.changed,
                triggers |-> st.triggers]]

\* filter_recommendation(rec, current_tags, prev_rec, c), when it does not
\* raise: [out, audit]
filter_recommendation(rec, current_tags, prev_rec, c) ==
    FilterResult(
        RuleFanStage(
            RuleVmsClamp(
                RuleIncidentNoSpeedIncrease(
                    [out |-> rec, violations |-> <<>>, changed |-> EmptyDict, triggers |-> <<>>],
                    current_tags, c),
                c),
            derive_state(current_tags).incident_active, prev_rec, c))

(***************************************************************************)
(* STIEngine                                                               *)
(***************************************************************************)
\* the inputs the model draws from
Speeds == {40, 90, 120}
Stages == -1 .. MaxProposedStage

\* {"fan_stage": f, "vms_speed": v}
Rec(f, v) == [k \in {"fan_stage", "vms_speed"} |-> IF k = "fan_stage" THEN f ELSE v]

\* every stage with one speed, every speed with one stage, and the
\* recommendations that omit a field
Recommendations ==
    {Rec(f, 90) : f \in Stages \cup {9}}
    \cup {Rec(1, v) : v \in Speeds}
    \cup {[k \in {"fan_stage"} |-> 3], [k \in {"vms_speed"} |-> 90], EmptyDict}

TagSnapshots ==
    { EmptyDict,
      [k \in {"Z3.EVT.Incident.Active"} |-> Num(10)],
      [k \in {"Z2.EVENT.IncidentFlag", "Z2.VMS.SpeedLimit", "Z1.VMS.SIGN.V01.SpeedSet"} |->
          IF k = "Z2.EVENT.IncidentFlag" THEN Num(5)
          ELSE IF k = "Z2.VMS.SpeedLimit" THEN Num(600) ELSE Num(700)],
      [k \in {"Z3.EVT.Incident.Active", "Z1.VMS.SIGN.V01.SpeedSet"} |->
          IF k = "Z3.EVT.Incident.Active" THEN Num(10) ELSE Num(505)],
      [k \in {"Z3.EVT.Incident.Active", "Z2.VMS.SpeedLimit"} |->
          IF k = "Z3.EVT.Incident.Active" THEN Num(4) ELSE Num(600)],
      [k \in {"Z2.EVENT.IncidentFlag", "Z3.EVT.Incident.Active", "Z2.VMS.SpeedLimit"} |->
          IF k = "Z2.EVENT.IncidentFlag" THEN Unparsable
          ELSE IF k = "Z3.EVT.Incident.Active" THEN Num(10) ELSE Unparsable],
      [k \in {"Z3.EVT.Incident.Active", "Z2.VMS.SpeedLimit"} |->
          IF k = "Z3.EVT.Incident.Active" THEN Num(10) ELSE NaN],
      [k \in {"Z3.EVT.Incident.Active", "Z2.VMS.SpeedLimit"} |->
          IF k = "Z3.EVT.Incident.Active" THEN Unparsable ELSE Num(600)] }

\* STIConstraints values: the defaults and variations of each field
ConstraintSets ==
    [max_fan_stage : {3},
     max_fan_step_per_s : 0 .. MaxStepRate,
     min_vms_speed_kmh : {60},
     max_vms_speed_kmh : {100},
     incident_no_speed_increase : BOOLEAN,
     incident_min_fan_stage : {0, 2}]

NoCall == [op |-> "init", rec |-> EmptyDict, tags |-> EmptyDict, raised |-> FALSE]

\* the components a specification leaves alone
IdleFan ==
    fan = [stage |-> 0, prev_stage |-> 0, co_ppm |-> 0, vis_pct |-> 0,
           called |-> FALSE, raised |-> FALSE, steady |-> TRUE]

IdleTraffic ==
    traffic = [s |-> [rho_veh_per_km |-> 2500, v_kmh |-> 9500, queue_index |-> 0],
               q_out |-> 0, steps |-> 0]

IdleEmis ==
    emis = [s |-> [co_ppm |-> 100000, vis_proxy |-> 200, co_source_proxy |-> 0],
            incident_flag |-> 0, steps |-> 0]

\* sim/event_generator.py, the Scenario defaults.  Flows in veh/h, speeds in
\* hundredths of km/h, severity and capacity drop in thousandths, the
\* visibility drop in tenths of a percent.
Scenario ==
    [scenario_id |-> "A_stau_peak_incident_v1", seed |-> 42, duration_s |-> 7200,
     q_in_base_veh_per_h |-> 2200, q_in_peak_amp_veh_per_h |-> 1200,
     q_in_peak_period_s |-> 1800,
     incident_start_s |-> 2400, incident_end_s |-> 3600,
     incident_capacity_drop |-> 350, incident_type |-> "collision",
     incident_severity |-> 600,
     weather_type |-> "clear", weather_start_s |-> 0, weather_end_s |-> 0,
     weather_visibility_drop_pct |-> 0, weather_speed_drop_kmh |-> 0,
     vms_speed_limit_kmh |-> 8000, fan_stage |-> 2]

Generators == {"A", "B"}

\* mutant: the previous incident flag starts as True
CreatedAfterIncident == 
    [pc |-> "created", t_s |-> 0,
     traffic |-> [rho_veh_per_km |-> 2500, v_kmh |-> 9500, queue_index |-> 0],
     emis |-> [co_ppm |-> 100000, vis_proxy |-> 200, co_source_proxy |-> 0],
     prev_inc |-> TRUE, inc |-> FALSE, fan_stage_dyn |-> 0, out |-> <<>>]

\* a generator object whose body has not run yet, with the locals it will have
Created ==
    [pc |-> "created", t_s |-> 0,
     traffic |-> [rho_veh_per_km |-> 2500, v_kmh |-> 9500, queue_index |-> 0],
     emis |-> [co_ppm |-> 100000, vis_proxy |-> 200, co_source_proxy |-> 0],
     prev_inc |-> FALSE, inc |-> FALSE, fan_stage_dyn |-> 0, out |-> <<>>]

Unseeded == [x |-> 0, gauss_next |-> {}]

IdleStream ==
    /\ stream = [sc |-> Scenario, t0 |-> 0, gen |-> [g \in Generators |-> Created]]
    /\ rngs = [g \in Generators |-> Unseeded]

IdleProbe ==
    probe = [sc |-> Scenario, asked |-> FALSE, t_s |-> 0, factor |-> 1000]

\* PlaybackState after __init__: times in hundredths of a second, the speed
\* factor in tenths
PlaybackState(scenario_meta) ==
    [scenario_id |-> scenario_meta.id, duration_s |-> scenario_meta.duration,
     dt |-> scenario_meta.dt, speed_factor |-> 10, paused |-> FALSE, t |-> 0]

IdlePlayback ==
    playback = [meta |-> [id |-> "stau_case_00", duration |-> 200, dt |-> 100,
                          tunnel_length |-> 1500, source |-> EmptyDict],
                state |-> [scenario_id |-> "stau_case_00", duration_s |-> 200,
                           dt |-> 100, speed_factor |-> 10, paused |-> FALSE, t |-> 0],
                op |-> "init", raised |-> FALSE, frame |-> {}]

IdleTwice ==
    twice = [c |-> [max_fan_stage |-> 3, max_fan_step_per_s |-> 1,
                    min_vms_speed_kmh |-> 60, max_vms_speed_kmh |-> 100,
                    incident_no_speed_increase |-> TRUE, incident_min_fan_stage |-> 0],
             rec |-> EmptyDict, tags |-> EmptyDict, prev_rec |-> {},
             passes |-> 0, raised |-> FALSE, results |-> <<>>]

IdleLog == log = <<>>

IdleControl ==
    control = [state |-> [duration_s |-> Num(200), dt |-> Num(100), speed_factor |-> Num(10),
                          paused |-> FALSE, t |-> Num(0)],
               op |-> "init", msg |-> {}, ok |-> TRUE, err |-> "", raised |-> FALSE]

IdleManager ==
    manager = [sessions |-> EmptyDict, scenario_id |-> "", session_id |-> {},
               op |-> "init", returned |-> {}, raised |-> ""]

Loops == {"loop1", "loop2"}

\* a control loop that is not inside step()
Outside == [pc |-> "outside", rec |-> EmptyDict, tags |-> EmptyDict, prev_rec |-> {}]

IdleShared ==
    shared = [constraints |-> [max_fan_stage |-> 3, max_fan_step_per_s |-> 1,
                               min_vms_speed_kmh |-> 60, max_vms_speed_kmh |-> 100,
                               incident_no_speed_increase |-> TRUE,
                               incident_min_fan_stage |-> 0],
              prev_filtered |-> {}, serialized |-> FALSE,
              loop |-> [l \in Loops |-> Outside], commits |-> <<>>]

IdleSTI ==
    /\ constraints = [max_fan_stage |-> 3, max_fan_step_per_s |-> 1,
                      min_vms_speed_kmh |-> 60, max_vms_speed_kmh |-> 100,
                      incident_no_speed_increase |-> TRUE, incident_min_fan_stage |-> 0]
    /\ prev_filtered = {}
    /\ call = NoCall
    /\ ret = {}

InitSTI ==
    /\ constraints \in ConstraintSets
    /\ prev_filtered = {}
    /\ call = NoCall
    /\ ret = {}
    /\ IdleFan
    /\ IdleTraffic
    /\ IdleEmis
    /\ IdleStream
    /\ IdleShared
    /\ IdleProbe
    /\ IdlePlayback
    /\ IdleTwice
    /\ IdleLog
    /\ IdleControl
    /\ IdleManager


\* mutant: the engine remembers the raw proposal
RememberedProposal(rec, filtered) == rec

\* self.prev_filtered = dict(filtered)
Remembered(rec, filtered) == filtered

\* the tail of step(): remember the filtered recommendation and return
StepReturns(rec, current_tags, r) ==
    /\ prev_filtered' = {Remembered(rec, r.out)}
    /\ ret' = {<<r.out, r.audit>>}
    /\ call' = [op |-> "step", rec |-> rec, tags |-> current_tags, raised |-> FALSE]

\* STIEngine.step(rec, current_tags); an exception leaves the engine as it was
Step(rec, current_tags) ==
    /\ constraints' = constraints
    /\ IF FilterRaises(rec, current_tags, constraints)
       THEN /\ call' = [op |-> "step", rec |-> rec, tags |-> current_tags, raised |-> TRUE]
            /\ UNCHANGED <<prev_filtered, ret>>
       ELSE StepReturns(rec, current_tags,
                filter_recommendation(rec, current_tags, prev_filtered, constraints))

\* mutant: reset() leaves the remembered recommendation in place
ResetKeepsMemory ==
    /\ prev_filtered' = prev_filtered
    /\ ret' = {}
    /\ call' = [NoCall EXCEPT !.op = "reset"]
    /\ constraints' = constraints

\* STIEngine.reset()
Reset ==
    /\ prev_filtered' = {}
    /\ ret' = {}
    /\ call' = [NoCall EXCEPT !.op = "reset"]
    /\ constraints' = constraints

NextSTI ==
    /\ \/ \E rec \in Recommendations, current_tags \in TagSnapshots : Step(rec, current_tags)
       \/ Reset
    /\ UNCHANGED <<fan_vars, traffic_vars, emis_vars, stream_vars, shared_vars, probe_vars, playback_vars, twice_vars, log_vars, control_vars, manager_vars>>

SpecSTI == InitSTI /\ [][NextSTI]_vars

(***************************************************************************)
(* One STIEngine shared by two control loops.  step() is two steps of the  *)
(* interpreter: the call of filter_recommendation, whose argument reads    *)
(* self.prev_filtered, and the assignment to self.prev_filtered followed   *)
(* by the return.  Under external serialization a loop enters step() only  *)
(* while no other loop is inside it.                                       *)
(***************************************************************************)
SharedProposals == {Rec(f, 90) : f \in 0 .. MaxProposedStage} \cup {[k \in {"vms_speed"} |-> 90]}

SharedTags ==
    { EmptyDict,
      [k \in {"Z3.EVT.Incident.Active", "Z2.VMS.SpeedLimit"} |->
          IF k = "Z3.EVT.Incident.Active" THEN Num(10) ELSE NaN] }

SharedConstraints ==
    [max_fan_stage : {3}, max_fan_step_per_s : 0 .. MaxStepRate,
     min_vms_speed_kmh : {60}, max_vms_speed_kmh : {100},
     incident_no_speed_increase : {TRUE}, incident_min_fan_stage : {0}]

\* mutant: the serialization lets a loop in while another is inside step()
LockFreeAlways(l) == TRUE

\* the external serialization: no other loop is inside step()
LockFree(l) == \A o \in Loops \ {l} : shared.loop[o].pc = "outside"

InitShared ==
    /\ shared \in [constraints : SharedConstraints, prev_filtered : {{}},
                    serialized : BOOLEAN, loop : {[l \in Loops |-> Outside]},
                    commits : {<<>>}]
    /\ IdleSTI
    /\ IdleFan
    /\ IdleTraffic
    /\ IdleEmis
    /\ IdleStream
    /\ IdleProbe
    /\ IdlePlayback
    /\ IdleTwice
    /\ IdleLog
    /\ IdleControl
    /\ IdleManager

\* line 265-270: the argument prev_rec=self.prev_filtered is read and
\* filter_recommendation is called on it; an exception leaves step() at once
Evaluate(l, rec, current_tags) ==
    /\ shared.loop[l].pc = "outside"
    /\ shared.serialized => LockFree(l)
    /\ shared' =
          IF FilterRaises(rec, current_tags, shared.constraints)
          THEN shared
          ELSE [shared EXCEPT !.loop[l] =
                   [pc |-> "filtered", rec |-> rec, tags |-> current_tags,
                    prev_rec |-> shared.prev_filtered]]

\* the two most recent commits, the latest last
LastTwo(commits, c) == IF commits = <<>> THEN <<c>> ELSE <<commits[Len(commits)], c>>

\* line 271-272: self.prev_filtered = dict(filtered); return filtered, audit
CommitOf(l, r) ==
    shared' = [shared EXCEPT
                  !.prev_filtered = {r.out},
                  !.loop[l] = Outside,
                  !.commits = LastTwo(shared.commits,
                                      [out |-> r.out, prev_rec |-> shared.loop[l].prev_rec])]

Commit(l) ==
    /\ shared.loop[l].pc = "filtered"
    /\ CommitOf(l, filter_recommendation(shared.loop[l].rec, shared.loop[l].tags,
                                         shared.loop[l].prev_rec, shared.constraints))

NextShared ==
    /\ \/ \E l \in Loops, rec \in SharedProposals, current_tags \in SharedTags :
             Evaluate(l, rec, current_tags)
       \/ \E l \in Loops : Commit(l)
    /\ UNCHANGED <<sti_vars, fan_vars, traffic_vars, emis_vars, stream_vars, probe_vars, playback_vars, twice_vars, log_vars, control_vars, manager_vars>>

SpecShared == InitShared /\ [][NextShared]_vars

(***************************************************************************)
(* A control loop that calls step once a second with the same proposal and *)
(* the same tag snapshot, on an engine whose earlier steps left any        *)
(* prev_filtered.  call holds the arguments every step repeats; the loop   *)
(* keeps calling, hence the weak fairness of the step.                     *)
(***************************************************************************)
HeldProposals == {Rec(0, 90), Rec(9, 90), [k \in {"fan_stage"} |-> 1]}

HeldSnapshots ==
    { EmptyDict,
      [k \in {"Z3.EVT.Incident.Active"} |-> Num(10)],
      [k \in {"Z3.EVT.Incident.Active", "Z2.VMS.SpeedLimit"} |->
          IF k = "Z3.EVT.Incident.Active" THEN Num(10) ELSE NaN] }

HeldConstraints ==
    [max_fan_stage : {3}, max_fan_step_per_s : {1, 2},
     min_vms_speed_kmh : {60}, max_vms_speed_kmh : {100},
     incident_no_speed_increase : {TRUE}, incident_min_fan_stage : {0, 2}]

EarlierFiltered == {{}, {Rec(0, 90)}, {Rec(3, 90)}}

InitHold ==
    /\ constraints \in HeldConstraints
    /\ prev_filtered \in EarlierFiltered
    /\ call \in [op : {"init"}, rec : HeldProposals, tags : HeldSnapshots, raised : {FALSE}]
    /\ ret = {}
    /\ IdleFan
    /\ IdleTraffic
    /\ IdleEmis
    /\ IdleStream
    /\ IdleProbe
    /\ IdlePlayback
    /\ IdleTwice
    /\ IdleShared
    /\ IdleLog
    /\ IdleControl
    /\ IdleManager

HoldStep == Step(call.rec, call.tags)

NextHold ==
    /\ HoldStep
    /\ UNCHANGED <<fan_vars, traffic_vars, emis_vars, stream_vars, shared_vars, probe_vars,
                   playback_vars, twice_vars, log_vars, control_vars, manager_vars>>

SpecHold == InitHold /\ [][NextHold]_vars /\ WF_sti_vars(HoldStep)

(***************************************************************************)
(* One STIEngine driven through a short session of step() and reset()      *)
(* calls, with a log of what each call handed back.                        *)
(***************************************************************************)
SessionRecs ==
    {Rec(0, 90), Rec(3, 90), [k \in {"vms_speed"} |-> 90], EmptyDict}

InitSession ==
    /\ constraints \in HeldConstraints
    /\ prev_filtered = {}
    /\ call = NoCall
    /\ ret = {}
    /\ log = <<>>
    /\ IdleFan
    /\ IdleTraffic
    /\ IdleEmis
    /\ IdleStream
    /\ IdleProbe
    /\ IdlePlayback
    /\ IdleTwice
    /\ IdleShared
    /\ IdleControl
    /\ IdleManager

\* what the caller of the last call saw: the call, whether it raised, and
\* the fan stage of the filtered recommendation it got back, if any
Observed ==
    [op |-> call.op, rec |-> call.rec, raised |-> call.raised,
     fan_stage |-> IF call.op = "step" /\ ~call.raised
                   THEN {r[1]["fan_stage"] : r \in {q \in ret : "fan_stage" \in DOMAIN q[1]}}
                   ELSE {}]

SessionStep ==
    /\ Len(log) < MaxCalls
    /\ \E rec \in SessionRecs, current_tags \in HeldSnapshots : Step(rec, current_tags)
    /\ log' = Append(log, Observed')

SessionReset ==
    /\ Len(log) < MaxCalls
    /\ Reset
    /\ log' = Append(log, Observed')

NextSession ==
    /\ (SessionStep \/ SessionReset)
    /\ UNCHANGED <<fan_vars, traffic_vars, emis_vars, stream_vars, shared_vars, probe_vars, playback_vars, twice_vars, control_vars, manager_vars>>

SpecSession == InitSession /\ [][NextSession]_vars

(***************************************************************************)
(* filter_recommendation called on a proposal, and called again on the     *)
(* recommendation it returned, with the same constraints, tag snapshot and *)
(* prev_rec.                                                               *)
(***************************************************************************)
PrevRecs == {{}} \cup {{Rec(f, 90)} : f \in 0 .. 3}

InitTwice ==
    /\ IdleSTI
    /\ IdleFan
    /\ IdleTraffic
    /\ IdleEmis
    /\ IdleStream
    /\ IdleProbe
    /\ IdlePlayback
    /\ IdleShared
    /\ IdleLog
    /\ IdleControl
    /\ IdleManager
    /\ twice \in [c : ConstraintSets, rec : Recommendations, tags : TagSnapshots,
                   prev_rec : PrevRecs, passes : {0}, raised : {FALSE},
                   results : {<<>>}]

\* filtered, audit = filter_recommendation(rec, tags, c, prev_rec)
FilterProposal ==
    /\ twice.passes = 0
    /\ twice' =
          IF FilterRaises(twice.rec, twice.tags, twice.c)
          THEN [twice EXCEPT !.passes = 1, !.raised = TRUE]
          ELSE [twice EXCEPT !.passes = 1,
                   !.results = <<filter_recommendation(twice.rec, twice.tags,
                                                       twice.prev_rec, twice.c)>>]

\* again, audit2 = filter_recommendation(filtered, tags, c, prev_rec)
FilterAgain ==
    /\ twice.passes = 1 /\ ~twice.raised
    /\ twice' =
          IF FilterRaises(twice.results[1].out, twice.tags, twice.c)
          THEN [twice EXCEPT !.passes = 2, !.raised = TRUE]
          ELSE [twice EXCEPT !.passes = 2,
                   !.results = Append(twice.results,
                        filter_recommendation(twice.results[1].out, twice.tags,
                                              twice.prev_rec, twice.c))]

NextTwice ==
    /\ FilterProposal \/ FilterAgain
    /\ UNCHANGED <<sti_vars, fan_vars, traffic_vars, emis_vars, stream_vars, shared_vars,
                   probe_vars, playback_vars, log_vars, control_vars, manager_vars>>

SpecTwice == InitTwice /\ [][NextTwice]_vars


(***************************************************************************)
(* opcua_mock_server.py: fan_stage_with_hysteresis.  CO and visibility are *)
(* floats held in tenths (250 is 25.0).                                    *)
(***************************************************************************)
\* Python list indexing: a negative index counts from the end
InIndexRange(list, i) == i >= -Len(list) /\ i < Len(list)
PyIndex(list, i) == IF i >= 0 THEN list[i + 1] ELSE list[Len(list) + i + 1]

up == <<250, 400, 650>>

\* mutant: the down-thresholds equal to the up-thresholds (no hysteresis)
downNoHysteresis == <<250, 400, 650>>

down == <<180, 320, 520>>

\* mutant: the visibility offsets exchanged
EffectiveCOSwapped(co_ppm, vis_pct) ==
    IF vis_pct < 650 THEN co_ppm + 80
    ELSE IF vis_pct < 800 THEN co_ppm + 180
    ELSE co_ppm

\* low visibility adds CO-equivalent pressure
EffectiveCO(co_ppm, vis_pct) ==
    IF vis_pct < 650 THEN co_ppm + 180
    ELSE IF vis_pct < 800 THEN co_ppm + 80
    ELSE co_ppm

\* the list lookups of the if/elif raise IndexError outside the lists
FanRaises(prev_stage, co_ppm, vis_pct) ==
    IF prev_stage < 3
    THEN \/ ~InIndexRange(up, prev_stage)
         \/ /\ ~(EffectiveCO(co_ppm, vis_pct) >= PyIndex(up, prev_stage))
            /\ prev_stage > 0
            /\ ~InIndexRange(down, prev_stage - 1)
    ELSE prev_stage > 0 /\ ~InIndexRange(down, prev_stage - 1)

StageAfter(stage, co) ==
    IF stage < 3 /\ co >= PyIndex(up, stage) THEN stage + 1
    ELSE IF stage > 0 /\ co < PyIndex(down, stage - 1) THEN stage - 1
    ELSE stage

fan_stage_with_hysteresis(prev_stage, co_ppm, vis_pct) ==
    Max(0, Min(3, StageAfter(prev_stage, EffectiveCO(co_ppm, vis_pct))))

\* readings at and just below every threshold, with and without an offset
COReadings ==
    {0, 69, 70, 100, 169, 170, 179, 180, 240, 249, 250, 260, 319, 320,
     399, 400, 519, 520, 649, 650, 900}
VisReadings == {0, 649, 650, 799, 800, 1000}

\* the stage a controller starts from: int(sc.fan_stage), any integer
StartStages == -1 .. 4

\* the readings of the non-chatter scenario: CO in [18, 40), visibility >= 80
Steady(co_ppm, vis_pct) == co_ppm >= 180 /\ co_ppm < 400 /\ vis_pct >= 800

InitFan ==
    /\ IdleSTI
    /\ IdleTraffic
    /\ IdleEmis
    /\ IdleStream
    /\ IdleShared
    /\ IdleProbe
    /\ IdlePlayback
    /\ IdleTwice
    /\ IdleLog
    /\ IdleControl
    /\ IdleManager
    /\ \E s0 \in StartStages :
          fan = [stage |-> s0, prev_stage |-> s0, co_ppm |-> 0, vis_pct |-> 0,
                 called |-> FALSE, raised |-> FALSE, steady |-> (s0 = 0)]

\* one call stage = fan_stage_with_hysteresis(stage, co_ppm, vis_pct)
FanStep(co_ppm, vis_pct) ==
    /\ ~fan.raised
    /\ IF FanRaises(fan.stage, co_ppm, vis_pct)
       THEN fan' = [fan EXCEPT !.prev_stage = fan.stage, !.co_ppm = co_ppm,
                               !.vis_pct = vis_pct, !.called = TRUE, !.raised = TRUE]
       ELSE fan' = [stage |-> fan_stage_with_hysteresis(fan.stage, co_ppm, vis_pct),
                    prev_stage |-> fan.stage, co_ppm |-> co_ppm, vis_pct |-> vis_pct,
                    called |-> TRUE, raised |-> FALSE,
                    steady |-> fan.steady /\ Steady(co_ppm, vis_pct)]

NextFan ==
    /\ \E co_ppm \in COReadings, vis_pct \in VisReadings : FanStep(co_ppm, vis_pct)
    /\ UNCHANGED <<sti_vars, traffic_vars, emis_vars, stream_vars, shared_vars, probe_vars, playback_vars, twice_vars, log_vars, control_vars, manager_vars>>

SpecFan == InitFan /\ [][NextFan]_vars

(***************************************************************************)
(* Properties of the fan controller                                        *)
(***************************************************************************)
RefEffectiveCO(co, vis) ==
    IF vis < 650 THEN co + 180 ELSE IF vis < 800 THEN co + 80 ELSE co
RefUp(stage) == CASE stage = 0 -> 250 [] stage = 1 -> 400 [] stage = 2 -> 650
RefDown(stage) == CASE stage = 1 -> 180 [] stage = 2 -> 320 [] stage = 3 -> 520
RefTransition(prev, co, vis) ==
    IF prev < 3 /\ RefEffectiveCO(co, vis) >= RefUp(prev) THEN prev + 1
    ELSE IF prev > 0 /\ RefEffectiveCO(co, vis) < RefDown(prev) THEN prev - 1
    ELSE prev

\* C8: from a stage in {0,1,2,3} the controller never raises, returns a
\* stage in {0,1,2,3} at most one away from the previous one, and that
\* stage is the reference transition on the visibility-adjusted CO.
C8_ReferenceTransition ==
    (fan.called /\ fan.prev_stage \in 0..3) =>
        /\ ~fan.raised
        /\ fan.stage \in 0..3
        /\ Abs(fan.stage - fan.prev_stage) <= 1
        /\ fan.stage = RefTransition(fan.prev_stage, fan.co_ppm, fan.vis_pct)

\* a step up that only the visibility offset of 8 explains
C8_Witness ==
    /\ fan.called /\ fan.prev_stage = 1 /\ fan.stage = 2
    /\ fan.co_ppm = 320 /\ fan.vis_pct = 799

\* C9: from stage 0, while every CO reading lies in [18, 40) with
\* visibility at or above 80 %, the stage never decreases.
C9_NoChatter ==
    [][ (fan.steady /\ fan'.steady) => fan'.stage >= fan.stage ]_vars

\* raised to 1 and held there by a reading of 24, below the up-threshold
C9_Witness ==
    /\ fan.called /\ fan.steady
    /\ fan.prev_stage = 1 /\ fan.co_ppm = 240 /\ fan.stage = 1


(***************************************************************************)
(* sim/traffic_model.py.  Floats are held in fixed point: densities and    *)
(* speeds in hundredths (2500 is 25.0 veh/km), flows in veh/h, the queue   *)
(* index, the capacity factor and every dimensionless ratio in thousandths.*)
(***************************************************************************)
\* a * m / d without leaving the integer range, for m, d > 0
MulDiv(a, m, d) == (a \div d) * m + ((a % d) * m) \div d

TrafficParams ==
    [dt_s |-> 1, segment_length_km |-> 1, v_free_kmh |-> 10000,
     rho_max_veh_per_km |-> 18000, gamma |-> 2, kappa_v |-> 250,
     q_max_veh_per_h |-> 3600, rho_crit_veh_per_km |-> 4500]

\* math.exp(-y) for y >= 0 in thousandths: the values at y = 0, 0.5, 1, ...
\* joined by straight lines, 0 beyond y = 7
ExpNegTable == <<1000, 607, 368, 223, 135, 82, 50, 30, 18, 11, 7, 4, 2, 1, 1>>
ExpNeg(y) ==
    IF y >= 7000 THEN 0
    ELSE LET i == y \div 500
             lo == ExpNegTable[i + 1]
             hi == ExpNegTable[i + 2]
         IN  lo - ((lo - hi) * (y % 500)) \div 500

\* x ** gamma for the integer exponent of the parameters, x in thousandths
RECURSIVE Pow(_, _)
Pow(x, n) == IF n = 0 THEN 1000 ELSE (x * Pow(x, n - 1)) \div 1000

fundamental_speed(p, rho) ==
    (p.v_free_kmh *
        (1000 - Pow(Max(0, Min(1000, (rho * 1000) \div p.rho_max_veh_per_km)), p.gamma)))
    \div 1000

_capacity_shaped_outflow(p, rho, speed, q_max) ==
    Min( (Max(0, rho) * Max(0, speed)) \div 10000,
         (q_max * (1000 - ExpNeg((Max(0, rho) * 1000) \div Max(1, p.rho_crit_veh_per_km))))
            \div 1000 )

\* q_max = p.q_max_veh_per_h * max(0.1, capacity_factor)
EffectiveCapacity(p, capacity_factor) ==
    (p.q_max_veh_per_h * Max(100, capacity_factor)) \div 1000

\* queue_next = min(1.0, max(0.0, 0.97 * s.queue_index + 0.08 * queue_growth))
QueueNext(p, s, q_in_veh_per_h, q_max) ==
    Min(1000, Max(0,
        (970 * s.queue_index
         + 80 * ((Max(0, q_in_veh_per_h - q_max) * 1000) \div Max(1, p.q_max_veh_per_h)))
        \div 1000))

\* v_des = min(fundamental_speed, vms) * max(0.25, 1 - 0.45 * queue_next)
DesiredSpeed(p, s, vms_speed_limit_kmh, queue_next) ==
    MulDiv(Min(fundamental_speed(p, s.rho_veh_per_km), vms_speed_limit_kmh),
           Max(250, 1000 - (450 * queue_next) \div 1000), 1000)

\* v_next = s.v_kmh + p.kappa_v * (v_des - s.v_kmh) * dt, before the clamp
RelaxedSpeed(p, s, v_des) ==
    s.v_kmh + (p.kappa_v * (v_des - s.v_kmh) * p.dt_s) \div 1000

\* rho_next = s.rho + (dt_h / length) * (q_in - q_out), before the clamp
ConservedDensity(p, s, q_in_veh_per_h, q_out) ==
    s.rho_veh_per_km
      + ((q_in_veh_per_h - q_out) * 100 * p.dt_s) \div (3600 * p.segment_length_km)

\* mutant: the speed clamped from above only
ClampSpeedUpperOnly(p, v_next) == Min(p.v_free_kmh, v_next)

\* v_next = max(0.0, min(p.v_free_kmh, v_next))
ClampSpeed(p, v_next) == Max(0, Min(p.v_free_kmh, v_next))

\* rho_next = max(0.0, min(p.rho_max_veh_per_km, rho_next))
ClampDensity(p, rho_next) == Max(0, Min(p.rho_max_veh_per_km, rho_next))

TrafficNext(p, s, q_in_veh_per_h, vms_speed_limit_kmh, q_max, queue_next, q_out) ==
    [rho_veh_per_km |-> ClampDensity(p, ConservedDensity(p, s, q_in_veh_per_h, q_out)),
     v_kmh |-> ClampSpeed(p, RelaxedSpeed(p, s,
                  DesiredSpeed(p, s, vms_speed_limit_kmh, queue_next))),
     queue_index |-> queue_next]

\* core/sim/traffic_model.py: returns (state_next, q_out)
step_traffic_core(p, s, q_in_veh_per_h, vms_speed_limit_kmh, capacity_factor) ==
    [state |-> TrafficNext(p, s, q_in_veh_per_h, vms_speed_limit_kmh,
                  EffectiveCapacity(p, capacity_factor),
                  QueueNext(p, s, q_in_veh_per_h, EffectiveCapacity(p, capacity_factor)),
                  _capacity_shaped_outflow(p, s.rho_veh_per_km, s.v_kmh,
                      EffectiveCapacity(p, capacity_factor))),
     q_out |-> _capacity_shaped_outflow(p, s.rho_veh_per_km, s.v_kmh,
                  EffectiveCapacity(p, capacity_factor))]

\* sim/traffic_model.py: returns state_next
step_traffic(p, s, q_in_veh_per_h, vms_speed_limit_kmh, capacity_factor) ==
    step_traffic_core(p, s, q_in_veh_per_h, vms_speed_limit_kmh, capacity_factor).state

\* states and inputs inside and far outside the physical ranges
TrafficStates ==
    [rho_veh_per_km : {-5000, 2500, 50000},
     v_kmh : {-2000, 9500, 30000},
     queue_index : {-1000, 0, 5000}]
Inflows == {-1000, 3400, 200000}
SpeedSetpoints == {-5000, 8000, 30000}
CapacityFactors == {-1000, 650, 3000}

InitTraffic ==
    /\ IdleSTI
    /\ IdleFan
    /\ IdleEmis
    /\ IdleStream
    /\ IdleShared
    /\ IdleProbe
    /\ IdlePlayback
    /\ IdleTwice
    /\ IdleLog
    /\ IdleControl
    /\ IdleManager
    /\ \E s0 \in TrafficStates : traffic = [s |-> s0, q_out |-> 0, steps |-> 0]

TrafficStepTo(r) ==
    traffic' = [s |-> r.state, q_out |-> r.q_out, steps |-> traffic.steps + 1]

TrafficStep(q_in_veh_per_h, vms_speed_limit_kmh, capacity_factor) ==
    /\ traffic.steps < MaxTrafficSteps
    /\ TrafficStepTo(step_traffic_core(TrafficParams, traffic.s, q_in_veh_per_h,
                                       vms_speed_limit_kmh, capacity_factor))

NextTraffic ==
    /\ \E q \in Inflows, v \in SpeedSetpoints, cap \in CapacityFactors : TrafficStep(q, v, cap)
    /\ UNCHANGED <<sti_vars, fan_vars, emis_vars, stream_vars, shared_vars, probe_vars, playback_vars, twice_vars, log_vars, control_vars, manager_vars>>

SpecTraffic == InitTraffic /\ [][NextTraffic]_vars

(***************************************************************************)
(* Properties of the traffic model                                         *)
(***************************************************************************)
\* C6: after any step, from any state and any finite inputs,
\* 0 <= density <= rho_max, 0 <= speed <= v_free and 0 <= queue_index <= 1.
C6_TrafficBounds ==
    traffic.steps >= 1 =>
        /\ traffic.s.rho_veh_per_km >= 0
        /\ traffic.s.rho_veh_per_km <= TrafficParams.rho_max_veh_per_km
        /\ traffic.s.v_kmh >= 0
        /\ traffic.s.v_kmh <= TrafficParams.v_free_kmh
        /\ traffic.s.queue_index >= 0
        /\ traffic.s.queue_index <= 1000

\* a step that every clamp had to cut: jam density, standstill, full queue
C6_Witness ==
    /\ traffic.steps >= 1
    /\ traffic.s.rho_veh_per_km = TrafficParams.rho_max_veh_per_km
    /\ traffic.s.v_kmh = 0
    /\ traffic.s.queue_index = 1000


(***************************************************************************)
(* sim/emission_model.py.  Fixed point: co_ppm and vis_proxy in units of   *)
(* 0.0001, the source proxy, densities and speeds in hundredths, the       *)
(* severity and every factor in thousandths, the heavy-vehicle ratio in    *)
(* tenths of a percent, flows and the air volume in m3/s and m3.           *)
(***************************************************************************)
RECURSIVE GCD(_, _)
GCD(a, b) == IF b = 0 THEN a ELSE GCD(b, a % b)

\* a * m / d for a >= 0 and m, d > 0, reduced first so that the products fit
Ratio(a, m, d) == MulDiv(a, m \div GCD(m, d), d \div GCD(m, d))

\* e_a0, e_a1, e_a2 and vis_beta2_incident in thousandths, e_delta in
\* hundredths, co_scale in thousandths, vis_beta0 and vis_beta1 in 0.0001
EmissionParams ==
    [dt_s |-> 1, air_volume_m3 |-> 300000, Q0_m3_per_s |-> 60,
     Q1_m3_per_s_per_stage |-> 40, e_a0 |-> 600, e_a1 |-> 40000, e_a2 |-> 5,
     e_delta |-> 500, co_scale |-> 2, vis_beta0 |-> 8, vis_beta1 |-> 12,
     vis_beta2_incident |-> 20, source_tau_s |-> 35]

\* a0 + a1 / (v + delta) + a2 * v, in thousandths
emission_per_vehicle(p, v_kmh) ==
    p.e_a0 + (p.e_a1 * 100) \div (Max(0, v_kmh) + p.e_delta)
           + (p.e_a2 * Max(0, v_kmh)) \div 100

ventilation_flow(p, fan_stage) ==
    p.Q0_m3_per_s + p.Q1_m3_per_s_per_stage * Max(0, fan_stage)

HeavyFactor(heavy_ratio_pct) == 1000 + (14 * Max(0, Min(1000, heavy_ratio_pct))) \div 10
StopGoFactor(v_kmh) == 1000 + (1200 * Max(0, 4000 - Max(0, v_kmh))) \div 4000
IncidentFactor(incident_flag, incident_severity) ==
    1000 + ((1500 * Max(0, Min(1000, incident_severity))) \div 1000) * incident_flag

\* E_proxy_raw, in hundredths
SourceRaw(p, rho_veh_per_km, v_kmh, incident_flag, incident_severity, heavy_ratio_pct) ==
    MulDiv(MulDiv(MulDiv(MulDiv(Max(0, rho_veh_per_km),
                                emission_per_vehicle(p, v_kmh), 1000),
                         HeavyFactor(heavy_ratio_pct), 1000),
                  StopGoFactor(v_kmh), 1000),
           IncidentFactor(incident_flag, incident_severity), 1000)

\* source_next = s + alpha * (E - s), alpha = min(1, dt / max(1, tau))
SourceNext(p, s, E_proxy_raw) ==
    s.co_source_proxy
      + ((E_proxy_raw - s.co_source_proxy) * Min(p.dt_s, Max(1, p.source_tau_s)))
            \div Max(1, p.source_tau_s)

\* the CO balance, before the floor
CoBalance(p, s, source_next, Q) ==
    s.co_ppm + p.dt_s * ( (p.co_scale * source_next) \div (10 * Max(1, p.air_volume_m3))
                          - Ratio(s.co_ppm, Q, Max(1, p.air_volume_m3)) )

\* the visibility balance, before the floor
VisBalance(p, s, source_next, Q, incident_flag, incident_severity) ==
    s.vis_proxy + p.dt_s * ( (p.vis_beta0 * source_next) \div 100
                             + (p.vis_beta2_incident * incident_flag
                                   * (1000 + incident_severity)) \div 100
                             - Ratio(s.vis_proxy, p.vis_beta1 * Q, 10000) )

\* mutant: the floor forgotten
NotFloored(x) == x

\* co_next = max(0.0, co_next); vis_next = max(0.0, vis_next)
FlooredAtZero(x) == Max(0, x)

EmissionNext(p, s, source_next, Q, incident_flag, incident_severity) ==
    [co_ppm |-> FlooredAtZero(CoBalance(p, s, source_next, Q)),
     vis_proxy |-> FlooredAtZero(VisBalance(p, s, source_next, Q,
                                            incident_flag, incident_severity)),
     co_source_proxy |-> source_next]

step_emissions(p, s, rho_veh_per_km, v_kmh, fan_stage, incident_flag, incident_severity, heavy_ratio_pct) ==
    EmissionNext(p, s,
        SourceNext(p, s, SourceRaw(p, rho_veh_per_km, v_kmh, incident_flag,
                                   incident_severity, heavy_ratio_pct)),
        ventilation_flow(p, fan_stage), incident_flag, incident_severity)

\* non-negative states; inputs inside and far outside their ranges
EmissionStates ==
    [co_ppm : {0, 100000}, vis_proxy : {0, 200}, co_source_proxy : {0, 4200, 2000000}]
EmisTraffic == {<<-1000, 9500>>, <<2500, 9500>>, <<18000, -500>>}
EmisFanStages == {-2, 3, 7500}
\* <<incident_flag, incident_severity>>; the parameter is an int, the stream
\* generator passes 0 or 1
EmisIncidents == {<<0, 600>>, <<1, -5000>>, <<1, 3000>>, <<-1, 1000>>}
EmisHeavyRatios == {120, 2000}

InitEmis ==
    /\ IdleSTI
    /\ IdleFan
    /\ IdleTraffic
    /\ IdleStream
    /\ IdleShared
    /\ IdleProbe
    /\ IdlePlayback
    /\ IdleTwice
    /\ IdleLog
    /\ IdleControl
    /\ IdleManager
    /\ \E s0 \in EmissionStates : emis = [s |-> s0, incident_flag |-> 0, steps |-> 0]

EmisStep(rho_veh_per_km, v_kmh, fan_stage, incident_flag, incident_severity, heavy_ratio_pct) ==
    /\ emis.steps < MaxEmisSteps
    /\ emis' = [s |-> step_emissions(EmissionParams, emis.s, rho_veh_per_km, v_kmh,
                          fan_stage, incident_flag, incident_severity, heavy_ratio_pct),
                incident_flag |-> incident_flag,
                steps |-> emis.steps + 1]

NextEmis ==
    /\ \E tr \in EmisTraffic, f \in EmisFanStages, inc \in EmisIncidents,
          h \in EmisHeavyRatios : EmisStep(tr[1], tr[2], f, inc[1], inc[2], h)
    /\ UNCHANGED <<sti_vars, fan_vars, traffic_vars, stream_vars, shared_vars, probe_vars, playback_vars, twice_vars, log_vars, control_vars, manager_vars>>

SpecEmis == InitEmis /\ [][NextEmis]_vars

(***************************************************************************)
(* Properties of the emission model                                        *)
(***************************************************************************)
NonNegative(s) == s.co_ppm >= 0 /\ s.vis_proxy >= 0 /\ s.co_source_proxy >= 0

EVENT_TYPE_TO_CODE ==
    [none |-> 0, collision |-> 1, stalled_vehicle |-> 2, wrong_way_driver |-> 3,
     vehicle_fire |-> 4, flooding |-> 5]
WEATHER_TO_CODE == [clear |-> 0, rain |-> 1, fog |-> 2, snow |-> 3]

\* dict.get(key, default)
DictGet(d, k, default) == IF k \in DOMAIN d THEN d[k] ELSE default

HalfWave(x) == (4000 * x * (180 - x)) \div (40500 - x * (180 - x))

\* math.sin of an angle in whole degrees, in thousandths (Bhaskara's formula)
SinDeg(deg) ==
    IF (deg % 360) <= 180 THEN HalfWave(deg % 360) ELSE 0 - HalfWave((deg % 360) - 180)

\* t_s / q_in_peak_period_s divides by zero for a period of 0
InflowRaises(sc) == sc.q_in_peak_period_s = 0

inflow(sc, t_s) ==
    Max(0, sc.q_in_base_veh_per_h
             + (sc.q_in_peak_amp_veh_per_h
                  * SinDeg((360 * t_s) \div sc.q_in_peak_period_s)) \div 1000)

\* mutant: the end of the window counted in
incident_flagEndInclusive(sc, t_s) ==
    IF sc.incident_start_s <= t_s /\ t_s <= sc.incident_end_s THEN 1 ELSE 0

incident_flag(sc, t_s) ==
    IF sc.incident_start_s <= t_s /\ t_s < sc.incident_end_s THEN 1 ELSE 0

incident_type_code(sc, t_s) ==
    IF incident_flag(sc, t_s) = 0 THEN 0
    ELSE DictGet(EVENT_TYPE_TO_CODE, sc.incident_type, EVENT_TYPE_TO_CODE["collision"])

weather_flag(sc, t_s) ==
    IF sc.weather_start_s <= t_s /\ t_s < sc.weather_end_s THEN 1 ELSE 0

weather_type_code(sc, t_s) ==
    IF weather_flag(sc, t_s) = 0 THEN 0
    ELSE DictGet(WEATHER_TO_CODE, sc.weather_type, WEATHER_TO_CODE["clear"])

IncidentCapacity(sc) ==
    Max(100, 1000 - (sc.incident_capacity_drop
                        * (500 + Min(1000, Max(0, sc.incident_severity)) \div 2)) \div 1000)

\* mutant: the product returned without the final floor
capacity_factorNoFloor(sc, t_s) ==
    ((IF incident_flag(sc, t_s) = 1 THEN IncidentCapacity(sc) ELSE 1000)
        * (IF weather_flag(sc, t_s) = 1 THEN 920 ELSE 1000)) \div 1000

\* in thousandths
capacity_factor(sc, t_s) ==
    Max(100,
        ((IF incident_flag(sc, t_s) = 1 THEN IncidentCapacity(sc) ELSE 1000)
            * (IF weather_flag(sc, t_s) = 1 THEN 920 ELSE 1000)) \div 1000)

\* <<VMS speed limit, fan stage>>
controls(sc, t_s) ==
    << IF weather_flag(sc, t_s) = 1
       THEN Max(4000, sc.vms_speed_limit_kmh - sc.weather_speed_drop_kmh)
       ELSE sc.vms_speed_limit_kmh,
       sc.fan_stage >>

(***************************************************************************)
(* streaming/opcua_mock_server.py: helpers of the stream generator.        *)
(* Percentages of visibility and of heavy vehicles in tenths, occupancy,   *)
(* speeds, flows per minute and temperature in hundredths, indices in      *)
(* thousandths, CO in units of 0.0001 ppm.                                 *)
(***************************************************************************)
clamp(x, lo, hi) == Max(lo, Min(hi, x))

jam_index_from_speed(speed_kmh, freeflow_kmh) ==
    IF freeflow_kmh <= 0 THEN 0
    ELSE clamp(1000 - (speed_kmh * 1000) \div freeflow_kmh, 0, 1000)

smoke_index(co_ppm, vis_pct) ==
    clamp((600 * clamp(co_ppm \div 2000, 0, 1000)
             + 400 * clamp(1000 - vis_pct, 0, 1000)) \div 1000, 0, 1000)

density_to_occ_pct(rho_veh_per_km) == clamp((rho_veh_per_km * 10) \div 25, 0, 10000)

vis_proxy_to_pct(vis_proxy_0_1) == clamp((10000 - vis_proxy_0_1) \div 10, 0, 1000)

\* the random source: random.Random(seed), random() in thousandths and
\* gauss(), which makes its deviates in pairs and keeps the second one
RngModulus == 65537
Seeded(seed) == [x |-> seed % RngModulus, gauss_next |-> {}]
NextX(x) == (x * 75 + 74) % RngModulus
Uniform(x) == (x * 1000) \div RngModulus

\* sqrt(-2 ln(1 - u)) in hundredths, by tenths of u
GaussRadius == <<32, 57, 76, 93, 109, 126, 145, 167, 195, 245>>

GaussPair(x1, x2) ==
    [z |-> (SinDeg((360 * Uniform(x1)) \div 1000 + 90)
               * GaussRadius[Uniform(x2) \div 100 + 1]) \div 1000,
     rng |-> [x |-> x2,
              gauss_next |-> {(SinDeg((360 * Uniform(x1)) \div 1000)
                                 * GaussRadius[Uniform(x2) \div 100 + 1]) \div 1000}]]

\* rng.gauss(0.0, 1.0) in hundredths, with the source after the call
Gauss(rng) ==
    IF rng.gauss_next # {}
    THEN [z |-> CHOOSE z \in rng.gauss_next : TRUE,
          rng |-> [x |-> rng.x, gauss_next |-> {}]]
    ELSE GaussPair(NextX(rng.x), NextX(NextX(rng.x)))

\* a bound that is None is the empty set
ClipLo(y, lo) == IF lo = {} THEN y ELSE Max(CHOOSE b \in lo : TRUE, y)
ClipHi(y, hi) == IF hi = {} THEN y ELSE Min(CHOOSE b \in hi : TRUE, y)

\* add_noise, given the deviate drawn for it
Noisy(x, z, sigma, lo, hi) == ClipHi(ClipLo(x + (z * sigma) \div 100, lo), hi)

add_noise(rng, x, sigma, lo, hi) ==
    [y |-> Noisy(x, Gauss(rng).z, sigma, lo, hi), rng |-> Gauss(rng).rng]

\* the add_noise calls of one snapshot, in program order
RECURSIVE Readings(_, _, _)
ReadingsAfter(noisy, rest, ys) == Readings(noisy.rng, rest, Append(ys, noisy.y))
Readings(rng, reqs, ys) ==
    IF reqs = <<>> THEN [ys |-> ys, rng |-> rng]
    ELSE ReadingsAfter(add_noise(rng, Head(reqs)[1], Head(reqs)[2],
                                 Head(reqs)[3], Head(reqs)[4]),
                       Tail(reqs), ys)

\* 10 + 8 * clamp(rho / 120, 0, 1), plus 4 under some incident types
HeavyRatio(sc, t_s, traffic_state) ==
    100 + (80 * clamp((traffic_state.rho_veh_per_km * 10) \div 120, 0, 1000)) \div 1000
        + (IF /\ incident_flag(sc, t_s) = 1
              /\ sc.incident_type \in {"wrong_way_driver", "stalled_vehicle", "vehicle_fire"}
           THEN 40 ELSE 0)

\* mutant: the setpoint without its floor of 40 km/h
VmsSpeedNoFloor(sc, t_s, traffic_state) == controls(sc, t_s)[1] - traffic_state.queue_index

\* max(40, base - 10 * queue_index)
VmsSpeed(sc, t_s, traffic_state) ==
    Max(4000, controls(sc, t_s)[1] - traffic_state.queue_index)

\* the visibility observation, after the weather
ObservedVisibility(sc, t_s, emis_state) ==
    IF weather_flag(sc, t_s) = 1
    THEN clamp(vis_proxy_to_pct(emis_state.vis_proxy) - sc.weather_visibility_drop_pct,
               0, 1000)
    ELSE vis_proxy_to_pct(emis_state.vis_proxy)

NoiseRequests(q_in_veh_per_min, traffic_state, heavy_ratio, emis_state, vis_pct) ==
    << <<q_in_veh_per_min, 80, {0}, {}>>,
       <<traffic_state.v_kmh, 150, {0}, {14000}>>,
       <<density_to_occ_pct(traffic_state.rho_veh_per_km), 100, {0}, {10000}>>,
       <<heavy_ratio, 6, {0}, {1000}>>,
       <<emis_state.co_ppm, 8000, {0}, {}>>,
       <<vis_pct, 8, {0}, {1000}>>,
       <<1800, 20, {-2000}, {8000}>> >>

Tags(sc, t_s, g, ys, q_in_veh_per_min, vms_speed_kmh, fan_stage_dyn, traffic_state, emis_state, vis_pct) ==
    ("Z0.SIM.Seed" :> sc.seed)
    @@ ("Z1.TRAF.DET.S01.Flow" :> ys[1])
    @@ ("Z1.TRAF.DET.S01.Speed" :> ys[2])
    @@ ("Z1.TRAF.DET.S01.Occ" :> ys[3])
    @@ ("Z1.TRAF.DET.S01.HeavyRatio" :> ys[4])
    @@ ("Z1.ENV.CO.S01.Value" :> ys[5])
    @@ ("Z1.ENV.VIS.S01.Value" :> ys[6])
    @@ ("Z1.ENV.TEMP.S01.Value" :> ys[7])
    @@ ("Z1.VENT.FAN.F01.Stage" :> fan_stage_dyn)
    @@ ("Z1.VENT.FAN.F01.State" :> IF fan_stage_dyn > 0 THEN 1 ELSE 0)
    @@ ("Z1.VENT.FAN.F01.Direction" :> 0)
    @@ ("Z1.VENT.FAN.F01.Fault" :> 0)
    @@ ("Z1.VMS.SIGN.V01.SpeedSet" :> vms_speed_kmh)
    @@ ("Z1.VMS.SIGN.V01.MessageCode" :> 0)
    @@ ("Z1.VMS.SIGN.V01.Fault" :> 0)
    @@ ("Z2.TRAF.AGG.S01.Flow_10s" :> q_in_veh_per_min)
    @@ ("Z2.TRAF.AGG.S01.Speed_10s" :> traffic_state.v_kmh)
    @@ ("Z2.TRAF.AGG.S01.Density_10s" :> traffic_state.rho_veh_per_km)
    @@ ("Z2.TRAF.AGG.S01.JamIndex" :> jam_index_from_speed(traffic_state.v_kmh, 10000))
    @@ ("Z2.ENV.AGG.S01.CO_10s" :> emis_state.co_ppm)
    @@ ("Z2.ENV.AGG.S01.VIS_10s" :> vis_pct)
    @@ ("Z2.ENV.AGG.S01.CO_Rate" :> 0)
    @@ ("Z2.ENV.AGG.S01.VIS_Rate" :> 0)
    @@ ("Z2.ENV.AGG.S01.SmokeIndex" :> smoke_index(emis_state.co_ppm, vis_pct))
    @@ ("Z3.EVT.Incident.Active" :> incident_flag(sc, t_s))
    @@ ("Z3.EVT.Incident.Onset" :> IF incident_flag(sc, t_s) = 1 /\ ~g.prev_inc THEN 1 ELSE 0)
    @@ ("Z3.EVT.Incident.Offset" :> IF incident_flag(sc, t_s) = 0 /\ g.prev_inc THEN 1 ELSE 0)
    @@ ("Z3.EVT.Incident.Type" :> incident_type_code(sc, t_s))
    @@ ("Z3.EVT.Incident.Severity" :>
            IF incident_flag(sc, t_s) = 1 THEN sc.incident_severity ELSE 0)
    @@ ("Z3.EVT.Incident.LocationSegment" :> 1)
    @@ ("Z3.EVT.Weather.Active" :> weather_flag(sc, t_s))
    @@ ("Z3.EVT.Weather.Type" :> weather_type_code(sc, t_s))

TagSnapshot(timestamp, tags, quality, scenario_id) ==
    [timestamp |-> timestamp, tags |-> tags, quality |-> quality,
     scenario_id |-> scenario_id]

(***************************************************************************)
(* generate_stream: the loop body, from the scenario context of second     *)
(* me.t_s to the yield.  Every stage hands its results to the next one.    *)
(***************************************************************************)
FanInputCO(emis_state) == emis_state.co_ppm \div 1000

\* mutant: the fan controller reads a CO value 60 ppm above the one left
\* by the previous iteration
FanReadingOffset(me) == [me.emis EXCEPT !.co_ppm = @ + 600000]

\* line 194-195: the emission state the fan controller reads is the one the
\* previous iteration left, the models not yet advanced
FanReading(me) == me.emis

LoopRaises(sc, me) ==
    \/ InflowRaises(sc)
    \/ FanRaises(me.fan_stage_dyn, FanInputCO(FanReading(me)),
                 vis_proxy_to_pct(FanReading(me).vis_proxy))

BodyWithReadings(sc, t0, me, q_in_veh_per_min, vms_speed_kmh, fan_next, traffic_next, emis_next, vis_pct, readings) ==
    [gen |-> [pc |-> "suspended", t_s |-> me.t_s,
              traffic |-> traffic_next, emis |-> emis_next,
              prev_inc |-> me.prev_inc, inc |-> incident_flag(sc, me.t_s) = 1,
              fan_stage_dyn |-> fan_next,
              out |-> Append(me.out,
                        TagSnapshot(t0 + me.t_s,
                            Tags(sc, me.t_s, me, readings.ys, q_in_veh_per_min,
                                 vms_speed_kmh, fan_next, traffic_next, emis_next,
                                 vis_pct),
                            "GOOD", sc.scenario_id))],
     rng |-> readings.rng]

BodyWithEmissions(sc, t0, me, rng, q_in_veh_per_min, heavy_ratio, vms_speed_kmh, fan_next, traffic_next, emis_next, vis_pct) ==
    BodyWithReadings(sc, t0, me, q_in_veh_per_min, vms_speed_kmh, fan_next,
        traffic_next, emis_next, vis_pct,
        Readings(rng, NoiseRequests(q_in_veh_per_min, traffic_next, heavy_ratio,
                                    emis_next, vis_pct), <<>>))

BodyWithTraffic(sc, t0, me, rng, q_in_veh_per_min, heavy_ratio, vms_speed_kmh, fan_next, traffic_next, emis_next) ==
    BodyWithEmissions(sc, t0, me, rng, q_in_veh_per_min, heavy_ratio, vms_speed_kmh,
        fan_next, traffic_next, emis_next,
        ObservedVisibility(sc, me.t_s, emis_next))

BodyWithContext(sc, t0, me, rng, q_in_veh_per_h, heavy_ratio, vms_speed_kmh, fan_next, traffic_next) ==
    BodyWithTraffic(sc, t0, me, rng, (q_in_veh_per_h * 100) \div 60, heavy_ratio,
        vms_speed_kmh, fan_next, traffic_next,
        step_emissions(EmissionParams, me.emis, traffic_next.rho_veh_per_km,
                       traffic_next.v_kmh, fan_next, incident_flag(sc, me.t_s),
                       sc.incident_severity, heavy_ratio))

LoopBody(sc, t0, me, rng) ==
    BodyWithContext(sc, t0, me, rng, inflow(sc, me.t_s),
        HeavyRatio(sc, me.t_s, me.traffic), VmsSpeed(sc, me.t_s, me.traffic),
        fan_stage_with_hysteresis(me.fan_stage_dyn, FanInputCO(FanReading(me)),
                                  vis_proxy_to_pct(FanReading(me).vis_proxy)),
        step_traffic(TrafficParams, me.traffic, inflow(sc, me.t_s),
                     VmsSpeed(sc, me.t_s, me.traffic), capacity_factor(sc, me.t_s)))

\* mutant: one random source shared by every run
RngOwnerShared(g) == "A"

\* rng = random.Random(seed): a source of the run's own
RngOwner(g) == g

Store(g, r) ==
    /\ stream' = [stream EXCEPT !.gen[g] = r.gen]
    /\ rngs' = [rngs EXCEPT ![RngOwner(g)] = r.rng]

\* for t_s in range(sc.duration_s): one iteration up to the yield, or the end
Run(g, me, rng) ==
    IF me.t_s >= stream.sc.duration_s
    THEN Store(g, [gen |-> [me EXCEPT !.pc = "finished"], rng |-> rng])
    ELSE IF LoopRaises(stream.sc, me)
    THEN Store(g, [gen |-> [me EXCEPT !.pc = "raised"], rng |-> rng])
    ELSE Store(g, LoopBody(stream.sc, stream.t0, me, rng))

\* first next(): the generator's set-up and its first iteration
Start(g) ==
    /\ stream.gen[g].pc = "created"
    /\ Run(g, [stream.gen[g] EXCEPT !.fan_stage_dyn = stream.sc.fan_stage],
           Seeded(stream.sc.seed))

\* a later next(): prev_inc = inc after the yield, then the next iteration
Resume(g) ==
    /\ stream.gen[g].pc = "suspended"
    /\ Run(g, [stream.gen[g] EXCEPT !.prev_inc = stream.gen[g].inc,
                                    !.t_s = stream.gen[g].t_s + 1],
           rngs[RngOwner(g)])

Peak == [Scenario EXCEPT !.duration_s = MaxDuration]

Scenarios ==
    { Peak,
      [Peak EXCEPT !.seed = 7, !.q_in_peak_period_s = 8],
      [Peak EXCEPT !.scenario_id = "B_incident", !.q_in_peak_period_s = 8,
                   !.incident_start_s = 1, !.incident_end_s = 2],
      [Peak EXCEPT !.scenario_id = "C_fire_fog", !.seed = 7,
                   !.incident_start_s = 0, !.incident_end_s = MaxDuration,
                   !.incident_type = "vehicle_fire", !.incident_severity = 1000,
                   !.weather_type = "fog", !.weather_start_s = 1,
                   !.weather_end_s = MaxDuration,
                   !.weather_visibility_drop_pct = 250,
                   !.weather_speed_drop_kmh = 2000, !.fan_stage = 0],
      [Peak EXCEPT !.scenario_id = "D_rain", !.duration_s = MaxDuration - 1,
                   !.weather_type = "rain", !.weather_start_s = 0,
                   !.weather_end_s = 1, !.vms_speed_limit_kmh = 10000,
                   !.fan_stage = 3],
      [Peak EXCEPT !.scenario_id = "E_fan4", !.fan_stage = 4],
      [Peak EXCEPT !.scenario_id = "F_empty", !.duration_s = 0],
      [Peak EXCEPT !.scenario_id = "G_empty_window",
                   !.incident_start_s = 2, !.incident_end_s = 1],
      [Peak EXCEPT !.scenario_id = "H_slow_sign", !.vms_speed_limit_kmh = 3500],
      [Peak EXCEPT !.scenario_id = "I_fan_below", !.fan_stage = -1] }

StartTimes == {0, 86399}

InitStream ==
    /\ IdleSTI
    /\ IdleFan
    /\ IdleTraffic
    /\ IdleEmis
    /\ IdleShared
    /\ IdleProbe
    /\ IdlePlayback
    /\ IdleTwice
    /\ IdleLog
    /\ IdleControl
    /\ IdleManager
    /\ \E sc \in Scenarios, t0 \in StartTimes :
          stream = [sc |-> sc, t0 |-> t0, gen |-> [g \in Generators |-> Created]]
    /\ rngs = [g \in Generators |-> Unseeded]

NextStream ==
    /\ \E g \in Generators : Start(g) \/ Resume(g)
    /\ UNCHANGED <<sti_vars, fan_vars, traffic_vars, emis_vars, shared_vars, probe_vars, playback_vars, twice_vars, log_vars, control_vars, manager_vars>>

SpecStream == InitStream /\ [][NextStream]_vars

(***************************************************************************)
(* capacity_factor asked of a scenario, second by second: an incident from *)
(* second 1 to second 3 under weather from second 2 to second 4, for       *)
(* severities and capacity drops inside and outside [0, 1] (thousandths).  *)
(***************************************************************************)
Severities == {-500, 0, 600, 1000, 3000}
CapacityDrops == {-500, 0, 350, 900, 1000, 2000, 100000}
ProbeTimes == 0 .. 4

ProbeScenarios ==
    { [Scenario EXCEPT !.incident_start_s = 1, !.incident_end_s = 3,
                       !.incident_severity = sev, !.incident_capacity_drop = drop,
                       !.weather_type = "rain", !.weather_start_s = 2, !.weather_end_s = 4]
        : sev \in Severities, drop \in CapacityDrops }

InitProbe ==
    /\ IdleSTI
    /\ IdleFan
    /\ IdleTraffic
    /\ IdleEmis
    /\ IdleStream
    /\ IdleShared
    /\ IdlePlayback
    /\ IdleTwice
    /\ IdleLog
    /\ IdleControl
    /\ IdleManager
    /\ \E sc \in ProbeScenarios : probe = [sc |-> sc, asked |-> FALSE, t_s |-> 0, factor |-> 1000]

\* capacity_factor(sc, t_s)
Ask(t_s) ==
    probe' = [probe EXCEPT !.asked = TRUE, !.t_s = t_s,
                           !.factor = capacity_factor(probe.sc, t_s)]

NextProbe ==
    /\ \E t_s \in ProbeTimes : Ask(t_s)
    /\ UNCHANGED <<sti_vars, fan_vars, traffic_vars, emis_vars, stream_vars, shared_vars, playback_vars, twice_vars, log_vars, control_vars, manager_vars>>

SpecProbe == InitProbe /\ [][NextProbe]_vars

(***************************************************************************)
(* backend/app/playback_engine.py: PlaybackEngine.  Times are hundredths   *)
(* of a second, the speed factor is in tenths.  Of a vehicle the model     *)
(* keeps id, tube, lane and type; its position is kept only as far as the  *)
(* modulo by the tunnel length can raise.                                  *)
(***************************************************************************)
_clamp_time(value, duration) == Max(0, Min(value, duration))

\* mutant: the base count without its floor of 20
BaseCountNoFloor(meta) == DictGet(meta.source, "q_in_base_veh_per_h", 2000) \div 30

\* self._base_vehicle_count
_base_vehicle_count(meta) ==
    Max(20, DictGet(meta.source, "q_in_base_veh_per_h", 2000) \div 30)

_stau_active(meta, t) ==
    /\ DictGet(meta.source, "queue_start_s", 1000) <= t
    /\ t <= DictGet(meta.source, "queue_end_s", 12000)

_brand_active(meta, t) ==
    /\ DictGet(meta.source, "fire_start_s", 4500) <= t
    /\ t <= DictGet(meta.source, "fire_end_s", 9000)

\* int(self._base_vehicle_count * 1.6) while the queue window is active
_vehicle_count_at(meta, t) ==
    IF _stau_active(meta, t) THEN (_base_vehicle_count(meta) * 16) \div 10
    ELSE _base_vehicle_count(meta)

_vehicle_at(idx, t) ==
    [id |-> idx, tube |-> (idx % 2) + 1, lane |-> (idx % 2) + 1,
     type |-> IF idx % 9 = 0 THEN "truck" ELSE "car"]

\* x = (...) % self.meta["tunnel_length"] raises ZeroDivisionError for length 0
VehicleRaises(meta) == meta.tunnel_length = 0

_events_at(meta, t) ==
    (IF _stau_active(meta, t) THEN <<"STAU_MAIN">> ELSE <<>>)
        \o (IF _brand_active(meta, t) THEN <<"BRAND_MAIN", "RAUCH_MAIN">> ELSE <<>>)

_actuators_at(meta, t) ==
    IF _brand_active(meta, t)
    THEN <<[id |-> "FAN_Z1_A", state |-> "on", value |-> 90],
           [id |-> "FAN_Z1_B", state |-> "on", value |-> 80],
           [id |-> "VMS_Z1", state |-> "warning", value |-> 1]>>
    ELSE <<[id |-> "FAN_Z1_A", state |-> "off", value |-> 0],
           [id |-> "FAN_Z1_B", state |-> "off", value |-> 0],
           [id |-> "VMS_Z1", state |-> "off", value |-> 0]>>

_build_frame(meta, state, vehicle_count) ==
    [schema |-> "tunnelai.viz.frame.v1", scenario_id |-> state.scenario_id,
     mode |-> "playback", t |-> state.t, dt |-> state.dt,
     timebase |-> [t |-> state.t, dt |-> state.dt, paused |-> state.paused,
                   speed_factor |-> state.speed_factor],
     vehicles |-> [i \in 1 .. vehicle_count |-> _vehicle_at(i - 1, state.t)],
     events |-> _events_at(meta, state.t),
     actuators |-> _actuators_at(meta, state.t)]

PlaybackSources ==
    { EmptyDict,
      [k \in {"q_in_base_veh_per_h", "queue_start_s", "queue_end_s"} |->
          IF k = "q_in_base_veh_per_h" THEN 300 ELSE IF k = "queue_start_s" THEN 100 ELSE 150],
      [k \in {"q_in_base_veh_per_h", "queue_start_s", "fire_start_s"} |->
          IF k = "q_in_base_veh_per_h" THEN 900 ELSE IF k = "queue_start_s" THEN 50 ELSE 100],
      [k \in {"q_in_base_veh_per_h", "queue_end_s"} |->
          IF k = "q_in_base_veh_per_h" THEN -100 ELSE -100] }

ScenarioMetas ==
    [id : {"stau_case_00"}, duration : {200}, dt : {100, 50},
     tunnel_length : {1500, 0}, source : PlaybackSources]

SpeedFactors == {0, 10, 25}
SeekTargets == {-100, 50, 150, 99900}

InitPlayback ==
    /\ IdleSTI
    /\ IdleFan
    /\ IdleTraffic
    /\ IdleEmis
    /\ IdleStream
    /\ IdleShared
    /\ IdleProbe
    /\ IdleTwice
    /\ IdleLog
    /\ IdleControl
    /\ IdleManager
    /\ \E scenario_meta \in ScenarioMetas :
          playback = [meta |-> scenario_meta, state |-> PlaybackState(scenario_meta),
                      op |-> "init", raised |-> FALSE, frame |-> {}]

set_paused(paused) ==
    playback' = [playback EXCEPT !.state.paused = paused, !.op = "set_paused",
                                 !.raised = FALSE, !.frame = {}]

set_speed(factor) ==
    playback' = [playback EXCEPT !.state.speed_factor = Max(1, factor),
                                 !.op = "set_speed", !.raised = FALSE, !.frame = {}]

seek(t) ==
    playback' = [playback EXCEPT !.state.t = _clamp_time(t, playback.state.duration_s),
                                 !.op = "seek", !.raised = FALSE, !.frame = {}]

\* the time step() moves to
Advanced(state) ==
    IF state.paused THEN state.t
    ELSE Min(state.duration_s, state.t + (state.dt * state.speed_factor) \div 10)

StepTo(state) ==
    playback' = [playback EXCEPT
                    !.state = state, !.op = "step",
                    !.raised = VehicleRaises(playback.meta),
                    !.frame = IF VehicleRaises(playback.meta) THEN {}
                              ELSE {_build_frame(playback.meta, state,
                                        _vehicle_count_at(playback.meta, state.t))}]

\* PlaybackEngine.step (the second definition, which replaces the first)
step == StepTo([playback.state EXCEPT !.t = Advanced(playback.state)])

NextPlayback ==
    /\ \/ \E paused \in BOOLEAN : set_paused(paused)
       \/ \E factor \in SpeedFactors : set_speed(factor)
       \/ \E t \in SeekTargets : seek(t)
       \/ step
    /\ UNCHANGED <<sti_vars, fan_vars, traffic_vars, emis_vars, stream_vars, shared_vars,
                   probe_vars, twice_vars, log_vars, control_vars, manager_vars>>

SpecPlayback == InitPlayback /\ [][NextPlayback]_vars

(***************************************************************************)
(* The playback clock in Python floats.  json.loads and float() let nan,   *)
(* inf and -inf through, so times and factors are floats with those three  *)
(* values: t, duration_s and dt in hundredths of a second, speed_factor in *)
(* tenths.                                                                 *)
(***************************************************************************)
PosInf == [kind |-> "inf", val |-> 0]
NegInf == [kind |-> "ninf", val |-> 0]

\* a < b on floats: false when either is nan
FloatLess(a, b) ==
    IF a.kind = "nan" \/ b.kind = "nan" THEN FALSE
    ELSE IF a.kind = "ninf" THEN b.kind # "ninf"
    ELSE IF a.kind = "inf" THEN FALSE
    ELSE IF b.kind = "inf" THEN TRUE
    ELSE IF b.kind = "ninf" THEN FALSE
    ELSE a.val < b.val

\* a <= b on floats: false when either is nan
FloatLE(a, b) ==
    /\ a.kind # "nan" /\ b.kind # "nan"
    /\ ~FloatLess(b, a)

\* Python min(a, b) and max(a, b): the first argument unless the second is
\* strictly smaller (larger)
PyMin(a, b) == IF FloatLess(b, a) THEN b ELSE a
PyMax(a, b) == IF FloatLess(a, b) THEN b ELSE a

FloatAdd(a, b) ==
    IF a.kind = "nan" \/ b.kind = "nan" THEN NaN
    ELSE IF a.kind = "num" /\ b.kind = "num" THEN Num(a.val + b.val)
    ELSE IF a.kind = "num" THEN b
    ELSE IF b.kind = "num" \/ b.kind = a.kind THEN a
    ELSE NaN

FloatSign(a) ==
    IF a.kind = "inf" THEN 1 ELSE IF a.kind = "ninf" THEN -1
    ELSE IF a.val > 0 THEN 1 ELSE IF a.val < 0 THEN -1 ELSE 0

\* a * b, the product of the two scaled integers divided by scale
FloatMul(a, b, scale) ==
    IF a.kind = "nan" \/ b.kind = "nan" THEN NaN
    ELSE IF a.kind = "num" /\ b.kind = "num" THEN Num((a.val * b.val) \div scale)
    ELSE IF FloatSign(a) * FloatSign(b) = 0 THEN NaN
    ELSE IF FloatSign(a) * FloatSign(b) > 0 THEN PosInf ELSE NegInf

\* mutant: max() with its arguments exchanged, which lets a nan through
ClampTimeFloatNanFirst(value, duration) == PyMax(PyMin(value, duration), Num(0))

\* _clamp_time on floats: max(0.0, min(value, duration))
ClampTimeFloat(value, duration) == PyMax(Num(0), PyMin(value, duration))

engine_set_paused(state, paused) == [state EXCEPT !.paused = paused]

engine_set_speed(state, factor) == [state EXCEPT !.speed_factor = PyMax(Num(1), factor)]

engine_seek(state, t) == [state EXCEPT !.t = ClampTimeFloat(t, state.duration_s)]

\* the clock part of PlaybackEngine.step
engine_step(state) ==
    IF ~state.paused
    THEN [state EXCEPT !.t = PyMin(state.duration_s,
                                   FloatAdd(state.t, FloatMul(state.dt, state.speed_factor, 10)))]
    ELSE state

\* an incoming text message: not JSON, JSON that is no object, or an object
\* with a type, a cmd and the parameter of the command when it has one
ControlMessage(json, type, cmd, arg) == [json |-> json, type |-> type, cmd |-> cmd, arg |-> arg]

SeekArgs == {Num(-100), Num(50), Num(150), Num(99900), NaN, PosInf, NegInf}
SpeedArgs == {Num(-10), Num(0), Num(10), Num(25), NaN, PosInf, NegInf}

ControlMessages ==
    { ControlMessage("bad", "", "", {}), ControlMessage("scalar", "", "", {}),
      ControlMessage("object", "TICK", "pause", {}),
      ControlMessage("object", "CONTROL", "stop", {}),
      ControlMessage("object", "CONTROL", "pause", {}),
      ControlMessage("object", "CONTROL", "play", {}),
      ControlMessage("object", "CONTROL", "seek", {}),
      ControlMessage("object", "CONTROL", "speed", {}) }
    \cup {ControlMessage("object", "CONTROL", "seek", {t}) : t \in SeekArgs \cup {Unparsable}}
    \cup {ControlMessage("object", "CONTROL", "speed", {f}) : f \in SpeedArgs \cup {Unparsable}}

Rejected(state, code) == [state |-> state, ok |-> FALSE, err |-> code, raised |-> FALSE]
Applied(state) == [state |-> state, ok |-> TRUE, err |-> "", raised |-> FALSE]

ControlArg(message) == CHOOSE a \in message.arg : TRUE

\* _apply_control(engine, raw_message): the engine afterwards and (ok, err);
\* payload.get on JSON that is no object raises AttributeError
_apply_control(state, message) ==
    IF message.json = "bad" THEN Rejected(state, "VAL_BAD_JSON")
    ELSE IF message.json = "scalar"
    THEN [state |-> state, ok |-> FALSE, err |-> "", raised |-> TRUE]
    ELSE IF message.type # "CONTROL" THEN Rejected(state, "CMD_UNKNOWN")
    ELSE IF message.cmd \notin {"pause", "play", "seek", "speed"}
    THEN Rejected(state, "CMD_UNKNOWN")
    ELSE IF message.cmd = "pause" THEN Applied(engine_set_paused(state, TRUE))
    ELSE IF message.cmd = "play" THEN Applied(engine_set_paused(state, FALSE))
    ELSE IF message.arg = {} THEN Rejected(state, "CMD_PARAM_MISSING")
    ELSE IF ControlArg(message).kind = "str" THEN Rejected(state, "CMD_INVALID_PARAM")
    ELSE IF message.cmd = "seek"
    THEN IF FloatLess(ControlArg(message), Num(0))
         THEN Rejected(state, "CMD_INVALID_PARAM")
         ELSE Applied(engine_seek(state, ControlArg(message)))
    ELSE IF FloatLE(ControlArg(message), Num(0))
         THEN Rejected(state, "CMD_INVALID_PARAM")
         ELSE Applied(engine_set_speed(state, ControlArg(message)))

\* the metas ScenarioStore.load_meta builds: a duration of 0 or more, dt 1.0
\* (and 0.5, which the engine accepts)
ClockMetas == [duration : {Num(0), Num(200)}, dt : {Num(100), Num(50)}]

InitControl ==
    /\ IdleSTI
    /\ IdleFan
    /\ IdleTraffic
    /\ IdleEmis
    /\ IdleStream
    /\ IdleShared
    /\ IdleProbe
    /\ IdlePlayback
    /\ IdleTwice
    /\ IdleLog
    /\ IdleManager
    /\ \E scenario_meta \in ClockMetas :
          control = [state |-> [duration_s |-> scenario_meta.duration, dt |-> scenario_meta.dt,
                                speed_factor |-> Num(10), paused |-> FALSE, t |-> Num(0)],
                     op |-> "init", msg |-> {}, ok |-> TRUE, err |-> "", raised |-> FALSE]

Called(op, state) ==
    control' = [state |-> state, op |-> op, msg |-> {}, ok |-> TRUE, err |-> "", raised |-> FALSE]

ClockStep == Called("step", engine_step(control.state))
ClockSeek == \E t \in SeekArgs : Called("seek", engine_seek(control.state, t))
ClockSetSpeed == \E factor \in SpeedArgs : Called("set_speed", engine_set_speed(control.state, factor))
ClockSetPaused == \E paused \in BOOLEAN : Called("set_paused", engine_set_paused(control.state, paused))

\* control_ws: a received message is handed to _apply_control
Receive ==
    \E message \in ControlMessages :
        control' = [state |-> _apply_control(control.state, message).state,
                    op |-> "control", msg |-> {message},
                    ok |-> _apply_control(control.state, message).ok,
                    err |-> _apply_control(control.state, message).err,
                    raised |-> _apply_control(control.state, message).raised]

NextControl ==
    /\ (ClockStep \/ ClockSeek \/ ClockSetSpeed \/ ClockSetPaused \/ Receive)
    /\ UNCHANGED <<sti_vars, fan_vars, traffic_vars, emis_vars, stream_vars, shared_vars, probe_vars, playback_vars, twice_vars, log_vars, manager_vars>>

SpecControl == InitControl /\ [][NextControl]_vars

(***************************************************************************)
(* playback_manager.py: PlaybackManager.  _sessions maps a session id to   *)
(* its PlaybackSession, of which the id and the scenario_id are kept.      *)
(***************************************************************************)
\* the scenarios the store has a file for, and one it has none for
StoredScenarios == {"stau_case_00", "brand_case_01"}
ScenarioIds == StoredScenarios \cup {"no_such_case"}

\* uuid4().hex[:12] values, and an id no session was created with
SessionIds == {"5f3c9a1e0b7d", "0a1b2c3d4e5f", "9e8d7c6b5a40"}
SessionArgs == {{}, {""}, {"ffffffffffff"}} \cup {{id} : id \in SessionIds}

PlaybackSession(id, scenario_id) == [id |-> id, scenario_id |-> scenario_id]

ManagerCall(sessions, scenario_id, session_id, returned, raised) ==
    manager' = [sessions |-> sessions, scenario_id |-> scenario_id, session_id |-> session_id,
                op |-> "get_or_create", returned |-> returned, raised |-> raised]

\* PlaybackManager.create_session: load_meta raises FileNotFoundError for a
\* scenario without a file; the new id is one no session has
create_session(scenario_id, session_id) ==
    IF scenario_id \notin StoredScenarios
    THEN ManagerCall(manager.sessions, scenario_id, session_id, {}, "FileNotFoundError")
    ELSE \E id \in SessionIds \ DOMAIN manager.sessions :
            ManagerCall(Put(manager.sessions, id, PlaybackSession(id, scenario_id)),
                        scenario_id, session_id, {PlaybackSession(id, scenario_id)}, "")

\* PlaybackManager.get_session
get_session(scenario_id, session_id) ==
    IF (CHOOSE id \in session_id : TRUE) \notin DOMAIN manager.sessions
    THEN ManagerCall(manager.sessions, scenario_id, session_id, {}, "KeyError")
    ELSE ManagerCall(manager.sessions, scenario_id, session_id,
                     {manager.sessions[CHOOSE id \in session_id : TRUE]}, "")

\* `if session_id:` is false for None and for the empty string
Truthy(session_id) == session_id # {} /\ session_id # {""}

\* PlaybackManager.get_or_create(scenario_id, session_id)
get_or_create(scenario_id, session_id) ==
    IF Truthy(session_id) THEN get_session(scenario_id, session_id)
    ELSE create_session(scenario_id, session_id)

InitManager ==
    /\ IdleSTI
    /\ IdleFan
    /\ IdleTraffic
    /\ IdleEmis
    /\ IdleStream
    /\ IdleShared
    /\ IdleProbe
    /\ IdlePlayback
    /\ IdleTwice
    /\ IdleLog
    /\ IdleControl
    /\ manager = [sessions |-> EmptyDict, scenario_id |-> "", session_id |-> {},
                  op |-> "init", returned |-> {}, raised |-> ""]

NextManager ==
    /\ \E scenario_id \in ScenarioIds, session_id \in SessionArgs : get_or_create(scenario_id, session_id)
    /\ UNCHANGED <<sti_vars, fan_vars, traffic_vars, emis_vars, stream_vars, shared_vars, probe_vars, playback_vars, twice_vars, log_vars, control_vars>>

SpecManager == InitManager /\ [][NextManager]_vars

(***************************************************************************)
(* Properties of the stream generator                                      *)
(***************************************************************************)
Produced(g) == stream.gen[g].out
Ended(g) == stream.gen[g].pc \in {"finished", "raised"}

\* C5: two generate_stream runs started from the same scenario (same seed)
\* and the same t0 produce, snapshot by snapshot, the same timestamps and
\* the same tag-to-value mappings, however their steps are interleaved;
\* when both have ended they have produced the same sequence and ended in
\* the same way.
C5_SameStream ==
    /\ \A k \in 1 .. Min(Len(Produced("A")), Len(Produced("B"))) :
          Produced("A")[k] = Produced("B")[k]
    /\ (Ended("A") /\ Ended("B"))
          => /\ Produced("A") = Produced("B")
             /\ stream.gen["A"].pc = stream.gen["B"].pc

\* run A has ended after its last snapshot while run B, started later, is
\* suspended at its second yield; noise changed the speed reading of that
\* snapshot and the two readings of the speed differ between seconds
C5_Witness ==
    /\ stream.gen["A"].pc = "finished"
    /\ stream.gen["B"].pc = "suspended"
    /\ Len(Produced("A")) = MaxDuration
    /\ Len(Produced("B")) = 2
    /\ Produced("B")[2].tags["Z1.TRAF.DET.S01.Speed"]
          # Produced("B")[2].tags["Z2.TRAF.AGG.S01.Speed_10s"]
    /\ Produced("B")[2].tags["Z1.TRAF.DET.S01.Speed"]
          # Produced("B")[1].tags["Z1.TRAF.DET.S01.Speed"]
    /\ Produced("B")[2].timestamp = stream.t0 + 1

(***************************************************************************)
(* Properties of the engine                                                *)
(***************************************************************************)
RetOut == (CHOOSE r \in ret : TRUE)[1]
RetAudit == (CHOOSE r \in ret : TRUE)[2]
Returned == call.op = "step" /\ ~call.raised
IncidentSeen == derive_state(call.tags).incident_active
TriggerCount(audit, rule_id) ==
    Cardinality({i \in 1..Len(audit.triggers) : audit.triggers[i].rule_id = rule_id})

\* C1: step never raises and, for a proposal carrying both fields, returns
\* min_vms_speed_kmh <= vms_speed <= max_vms_speed_kmh and
\* 0 <= fan_stage <= max_fan_stage, whatever the tag snapshot.
C1_NeverRaisesInBand ==
    (call.op = "step" /\ DOMAIN call.rec = {"fan_stage", "vms_speed"}) =>
        /\ ~call.raised
        /\ ret # {}
        /\ RetOut["vms_speed"] >= constraints.min_vms_speed_kmh
        /\ RetOut["vms_speed"] <= constraints.max_vms_speed_kmh
        /\ RetOut["fan_stage"] >= 0
        /\ RetOut["fan_stage"] <= constraints.max_fan_stage

\* C2: between two returning step calls with no reset in between, both
\* carrying fan_stage, the returned fan stage moves by at most
\* max_fan_step_per_s; with a rate of 1 and the previous result 0 or 1,
\* proposing 3 returns the previous stage plus one, with exactly one
\* R_FAN_RAMP_RATE trigger.
C2_RampBounded ==
    [][ (/\ ret # {} /\ "fan_stage" \in DOMAIN RetOut
         /\ call'.op = "step" /\ ~call'.raised
         /\ "fan_stage" \in DOMAIN call'.rec)
        => /\ Abs(RetOut'["fan_stage"] - RetOut["fan_stage"]) <= constraints.max_fan_step_per_s
           /\ (/\ constraints.max_fan_step_per_s = 1
               /\ RetOut["fan_stage"] \in {0, 1}
               /\ call'.rec["fan_stage"] = 3)
              => /\ RetOut'["fan_stage"] = RetOut["fan_stage"] + 1
                 /\ TriggerCount(RetAudit', "R_FAN_RAMP_RATE") = 1 ]_vars

\* the second call of the scenario: previous result 1, proposal 3, result 2
C2_Witness ==
    /\ Returned /\ constraints.max_fan_step_per_s = 1
    /\ "fan_stage" \in DOMAIN call.rec /\ call.rec["fan_stage"] = 3
    /\ RetOut["fan_stage"] = 2
    /\ \E i \in 1..Len(RetAudit.triggers) :
          /\ RetAudit.triggers[i].rule_id = "R_FAN_RAMP_RATE"
          /\ RetAudit.triggers[i].evidence.prev_fan_stage = 1

\* the displayed speed limit of a snapshot, in tenths: Z2.VMS.SpeedLimit
\* when present, otherwise Z1.VMS.SIGN.V01.SpeedSet
HasDisplayedLimit(tags) ==
    IF "Z2.VMS.SpeedLimit" \in DOMAIN tags THEN tags["Z2.VMS.SpeedLimit"].kind = "num"
    ELSE "Z1.VMS.SIGN.V01.SpeedSet" \in DOMAIN tags
         /\ tags["Z1.VMS.SIGN.V01.SpeedSet"].kind = "num"
DisplayedLimit(tags) ==
    IF "Z2.VMS.SpeedLimit" \in DOMAIN tags THEN tags["Z2.VMS.SpeedLimit"].val
    ELSE tags["Z1.VMS.SIGN.V01.SpeedSet"].val
SpeedLockCase ==
    /\ Returned /\ IncidentSeen /\ constraints.incident_no_speed_increase
    /\ "vms_speed" \in DOMAIN call.rec /\ HasDisplayedLimit(call.tags)

\* C3 as stated: under an active incident with the rule enabled the
\* returned vms_speed is never above the displayed limit.
C3_NeverAboveDisplayedLimit ==
    SpeedLockCase => 10 * RetOut["vms_speed"] <= DisplayedLimit(call.tags)

\* C3, amended: under an active incident with the rule enabled the returned
\* vms_speed is never above the larger of the displayed limit and
\* min_vms_speed_kmh (the band clamp runs after the speed lock); with the
\* limit 60 and the proposal 90 the result is 60 with exactly one
\* R_INCIDENT_NO_SPEED_INCREASE trigger.
C3_SpeedLockWithinBand ==
    SpeedLockCase =>
        /\ 10 * RetOut["vms_speed"]
              <= Max(DisplayedLimit(call.tags), 10 * constraints.min_vms_speed_kmh)
        /\ (DisplayedLimit(call.tags) = 600 /\ call.rec["vms_speed"] = 90)
              => /\ RetOut["vms_speed"] = 60
                 /\ TriggerCount(RetAudit, "R_INCIDENT_NO_SPEED_INCREASE") = 1

\* the lock fired on a limit below the band and the clamp raised the result
C3_Witness ==
    /\ SpeedLockCase
    /\ DisplayedLimit(call.tags) < 10 * constraints.min_vms_speed_kmh
    /\ TriggerCount(RetAudit, "R_INCIDENT_NO_SPEED_INCREASE") = 1
    /\ RetOut["vms_speed"] = constraints.min_vms_speed_kmh

IncidentMinCase(c, inv) ==
    /\ inv.op = "step" /\ ~inv.raised
    /\ derive_state(inv.tags).incident_active
    /\ c.incident_min_fan_stage > 0 /\ c.incident_min_fan_stage <= c.max_fan_stage
    /\ "fan_stage" \in DOMAIN inv.rec

\* C4 as stated: under an active incident with 0 < m <= max_fan_stage the
\* returned fan_stage is at least m, whatever the previous filtered stage.
C4_AtLeastIncidentMin ==
    IncidentMinCase(constraints, call) =>
        RetOut["fan_stage"] >= constraints.incident_min_fan_stage

\* C4, amended: under an active incident with 0 < m <= max_fan_stage the
\* returned fan_stage is at least m when the engine holds no previous
\* filtered fan stage, and otherwise at least
\* min(m, previous filtered stage + max_fan_step_per_s).
C4_IncidentMinUpToRamp ==
    [][ IncidentMinCase(constraints, call') =>
          IF HasPrevFan(prev_filtered)
          THEN RetOut'["fan_stage"] >=
                 Min(constraints.incident_min_fan_stage,
                     PrevFan(prev_filtered) + constraints.max_fan_step_per_s)
          ELSE RetOut'["fan_stage"] >= constraints.incident_min_fan_stage ]_vars

\* the minimum was enforced and the ramp rule then held the stage below it
C4_Witness ==
    /\ IncidentMinCase(constraints, call)
    /\ TriggerCount(RetAudit, "R_INCIDENT_MIN_FAN_STAGE") = 1
    /\ TriggerCount(RetAudit, "R_FAN_RAMP_RATE") = 1
    /\ RetOut["fan_stage"] < constraints.incident_min_fan_stage

\* C10: after a returning step the engine remembers exactly the returned
\* recommendation; after reset() it remembers nothing.
C10_RemembersFinalOutput ==
    /\ Returned => (ret # {} /\ prev_filtered = {RetOut})
    /\ call.op = "reset" => prev_filtered = {}

\* a step whose proposal, clamped stage and returned stage all differ
C10_Witness ==
    /\ Returned /\ "fan_stage" \in DOMAIN call.rec
    /\ TriggerCount(RetAudit, "R_FAN_CLAMP") = 1
    /\ TriggerCount(RetAudit, "R_FAN_RAMP_RATE") = 1
    /\ RetOut["fan_stage"] # call.rec["fan_stage"]
    /\ prev_filtered = {RetOut}

FixedOrder ==
    <<"R_INCIDENT_NO_SPEED_INCREASE", "R_VMS_CLAMP", "R_INCIDENT_MIN_FAN_STAGE",
      "R_FAN_CLAMP", "R_FAN_RAMP_RATE">>
InFixedOrder(triggers) ==
    /\ \A i \in 1..Len(triggers) : \E n \in 1..Len(FixedOrder) : FixedOrder[n] = triggers[i].rule_id
    /\ \A i, j \in 1..Len(triggers) :
          i < j => \E n, k \in 1..Len(FixedOrder) :
                      /\ n < k
                      /\ FixedOrder[n] = triggers[i].rule_id
                      /\ FixedOrder[k] = triggers[j].rule_id

\* the proposal after the incident minimum and the clamp to [0, max_fan_stage]
ClampedProposal(c, inv) ==
    Max(0, Min(c.max_fan_stage,
        IF /\ derive_state(inv.tags).incident_active
           /\ c.incident_min_fan_stage > 0
           /\ inv.rec["fan_stage"] < c.incident_min_fan_stage
        THEN c.incident_min_fan_stage
        ELSE inv.rec["fan_stage"]))

\* C11: in every evaluation R_FAN_RAMP_RATE triggers iff a previous filtered
\* fan stage exists and |clamped stage - previous filtered stage| exceeds
\* max_fan_step_per_s, the clamped stage being the proposal after the
\* incident minimum and the ceiling clamp; with previous stage 2, rate 1 and
\* proposal 9 the result is 3 and R_FAN_CLAMP is the only fan trigger; the
\* triggers of every audit appear in the fixed rule order, each at most once.
C11_RampSeesClampedStage ==
    [][ (call'.op = "step" /\ ~call'.raised) =>
          /\ InFixedOrder(RetAudit'.triggers)
          /\ TriggerCount(RetAudit', "R_FAN_RAMP_RATE") \in {0, 1}
          /\ (TriggerCount(RetAudit', "R_FAN_RAMP_RATE") = 1)
                <=> /\ "fan_stage" \in DOMAIN call'.rec
                    /\ HasPrevFan(prev_filtered)
                    /\ Abs(ClampedProposal(constraints, call') - PrevFan(prev_filtered))
                          > constraints.max_fan_step_per_s
          /\ (/\ "fan_stage" \in DOMAIN call'.rec /\ call'.rec["fan_stage"] = 9
              /\ HasPrevFan(prev_filtered) /\ PrevFan(prev_filtered) = 2
              /\ constraints.max_fan_step_per_s = 1)
                => /\ RetOut'["fan_stage"] = 3
                   /\ TriggerCount(RetAudit', "R_FAN_CLAMP") = 1
                   /\ TriggerCount(RetAudit', "R_INCIDENT_MIN_FAN_STAGE") = 0 ]_vars

\* proposal 9 with a previous stage of 1 and rate 1: the clamp takes 9 to 3
\* and the ramp rule then takes that 3, not the 9, to 2
C11_Witness ==
    /\ Returned /\ "fan_stage" \in DOMAIN call.rec /\ call.rec["fan_stage"] = 9
    /\ constraints.max_fan_step_per_s = 1
    /\ \E i, j \in 1..Len(RetAudit.triggers) :
          /\ i < j
          /\ RetAudit.triggers[i].rule_id = "R_FAN_CLAMP"
          /\ RetAudit.triggers[i].changed.fan_stage = <<9, 3>>
          /\ RetAudit.triggers[j].rule_id = "R_FAN_RAMP_RATE"
          /\ RetAudit.triggers[j].changed.fan_stage = <<3, 2>>

\* the triggers of an audit that changed the given field, in order
FieldTriggers(audit, fld) ==
    SelectSeq(audit.triggers, LAMBDA t : fld \in DOMAIN t.changed)

\* a chain of before/after pairs leading from the proposed to the returned value
IsChain(seq, fld, proposed, returned) ==
    IF seq = <<>> THEN returned = proposed
    ELSE /\ seq[1].changed[fld][1] = proposed
         /\ \A i \in 1..(Len(seq) - 1) : seq[i].changed[fld][2] = seq[i + 1].changed[fld][1]
         /\ seq[Len(seq)].changed[fld][2] = returned

\* C12: in every evaluation violations and triggers have the same length
\* and the i-th rule_id is "R_" followed by the i-th violation; every
\* trigger changes exactly one field and its pair has before # after; for
\* each field the triggers of that field form a chain from the proposed to
\* the returned value, so a field without a trigger is returned as proposed.
C12_AuditAccountsForChanges ==
    Returned =>
        /\ Len(RetAudit.violations) = Len(RetAudit.triggers)
        /\ \A i \in 1..Len(RetAudit.triggers) :
              /\ RetAudit.triggers[i].rule_id = "R_" \o RetAudit.violations[i]
              /\ \E fld \in {"vms_speed", "fan_stage"} :
                    /\ DOMAIN RetAudit.triggers[i].changed = {fld}
                    /\ RetAudit.triggers[i].changed[fld][1] # RetAudit.triggers[i].changed[fld][2]
        /\ DOMAIN RetOut = DOMAIN call.rec
        /\ \A fld \in {"vms_speed", "fan_stage"} :
              IF fld \in DOMAIN call.rec
              THEN IsChain(FieldTriggers(RetAudit, fld), fld, call.rec[fld], RetOut[fld])
              ELSE FieldTriggers(RetAudit, fld) = <<>>

\* four triggers in one audit: the speed locked and then clamped, the fan
\* stage clamped and then ramp-limited, both fields returned changed
C12_Witness ==
    /\ Returned /\ DOMAIN call.rec = {"fan_stage", "vms_speed"}
    /\ Len(RetAudit.triggers) = 4
    /\ Len(FieldTriggers(RetAudit, "vms_speed")) = 2
    /\ Len(FieldTriggers(RetAudit, "fan_stage")) = 2
    /\ RetOut["vms_speed"] # call.rec["vms_speed"]
    /\ RetOut["fan_stage"] # call.rec["fan_stage"]

\* a recommendation with both fields inside their bands
InBand(rec, c) ==
    /\ DOMAIN rec = {"fan_stage", "vms_speed"}
    /\ rec["fan_stage"] >= 0 /\ rec["fan_stage"] <= c.max_fan_stage
    /\ rec["vms_speed"] >= c.min_vms_speed_kmh /\ rec["vms_speed"] <= c.max_vms_speed_kmh

\* neither incident tag is present with a numeric value >= 0.5
NoIncidentFlagged(tags) ==
    \A key \in {"Z2.EVENT.IncidentFlag", "Z3.EVT.Incident.Active"} :
        key \in DOMAIN tags => (tags[key].kind # "num" \/ tags[key].val < 5)

Untouched == RetAudit.violations = <<>> /\ RetAudit.triggers = <<>> /\ RetOut = call.rec

\* C13 as stated: an in-band recommendation fed through STIEngine.step
\* gives zero violations, zero triggers and the recommendation unchanged.
C13_InBandUntouched == (Returned /\ InBand(call.rec, constraints)) => Untouched

\* C13, amended: an in-band recommendation fed through STIEngine.step when
\* the snapshot flags no incident and the engine holds no previous filtered
\* fan stage, or one within max_fan_step_per_s of the proposed stage, gives
\* zero violations, zero triggers and the recommendation unchanged.
C13_InBandUntouchedWithinRamp ==
    [][ (/\ call'.op = "step" /\ ~call'.raised
         /\ InBand(call'.rec, constraints)
         /\ NoIncidentFlagged(call'.tags)
         /\ HasPrevFan(prev_filtered) =>
               Abs(call'.rec["fan_stage"] - PrevFan(prev_filtered))
                  <= constraints.max_fan_step_per_s)
        => Untouched' ]_vars

\* stage 3 and speed 90 returned untouched although the snapshot carries an
\* incident tag (below 0.5) and a displayed limit of 60
C13_Witness ==
    /\ Returned /\ InBand(call.rec, constraints)
    /\ "Z3.EVT.Incident.Active" \in DOMAIN call.tags /\ NoIncidentFlagged(call.tags)
    /\ call.rec["fan_stage"] = 3 /\ call.rec["vms_speed"] = 90
    /\ Untouched

AllFinite(tags) == \A key \in DOMAIN tags : tags[key].kind # "nan"
NoSpeedLimitTag(tags) ==
    "Z2.VMS.SpeedLimit" \notin DOMAIN tags /\ "Z1.VMS.SIGN.V01.SpeedSet" \notin DOMAIN tags

\* C14: on snapshots whose tags are missing, unparsable or finite numbers
\* step never raises; when neither incident tag is present with a value
\* >= 0.5 neither R_INCIDENT_NO_SPEED_INCREASE nor R_INCIDENT_MIN_FAN_STAGE
\* triggers, whatever the proposal; when an incident is flagged and no
\* speed-limit tag is present the displayed limit is 80: the speed lock
\* triggers iff the proposed speed is above 80, and locks to 80.
C14_SafeDefaults ==
    /\ (call.op = "step" /\ AllFinite(call.tags)) => ~call.raised
    /\ (Returned /\ NoIncidentFlagged(call.tags)) =>
          /\ TriggerCount(RetAudit, "R_INCIDENT_NO_SPEED_INCREASE") = 0
          /\ TriggerCount(RetAudit, "R_INCIDENT_MIN_FAN_STAGE") = 0
    /\ (/\ Returned /\ ~NoIncidentFlagged(call.tags) /\ NoSpeedLimitTag(call.tags)
        /\ constraints.incident_no_speed_increase /\ "vms_speed" \in DOMAIN call.rec) =>
          IF call.rec["vms_speed"] > 80
          THEN /\ TriggerCount(RetAudit, "R_INCIDENT_NO_SPEED_INCREASE") = 1
               /\ RetAudit.triggers[1].evidence.current_speed_limit = 80
               /\ RetAudit.triggers[1].changed.vms_speed = <<call.rec["vms_speed"], 80>>
          ELSE TriggerCount(RetAudit, "R_INCIDENT_NO_SPEED_INCREASE") = 0

\* the incident tag holds a value float() rejects: read as inactive, so a
\* proposal of 90 passes a displayed limit of 60 and a stage of 0 passes an
\* incident minimum of 2
C14_Witness ==
    /\ Returned
    /\ "Z3.EVT.Incident.Active" \in DOMAIN call.tags
    /\ call.tags["Z3.EVT.Incident.Active"].kind = "str"
    /\ NoIncidentFlagged(call.tags)
    /\ constraints.incident_no_speed_increase /\ constraints.incident_min_fan_stage = 2
    /\ call.rec = Rec(0, 90)
    /\ RetOut["vms_speed"] = 90

\* successive commits whose fan stages lie further apart than the ramp rate
RampBroken ==
    /\ Len(shared.commits) = 2
    /\ \A i \in 1..2 : "fan_stage" \in DOMAIN shared.commits[i].out
    /\ Abs(shared.commits[2].out["fan_stage"] - shared.commits[1].out["fan_stage"])
          > shared.constraints.max_fan_step_per_s

\* C15: when the step calls on a shared engine are serialized, at most one
\* loop is inside step() and no two successive commits of prev_filtered
\* have fan stages further apart than max_fan_step_per_s; the witness is
\* the unserialized engine reaching exactly such a pair.
C15_SerializedRampHolds ==
    shared.serialized =>
        /\ ~RampBroken
        /\ \E l \in Loops : shared.loop[l].pc = "outside"

\* both loops read the same prev_filtered before either wrote, and the two
\* results, committed one after the other, are further apart than the rate
C15_Witness ==
    /\ ~shared.serialized
    /\ RampBroken
    /\ shared.commits[1].prev_rec = shared.commits[2].prev_rec
    /\ shared.commits[1].prev_rec # {}
    /\ shared.prev_filtered = {shared.commits[2].out}

\* C16 as stated: a run never yields more than max(0, duration_s)
\* snapshots, the k-th (from 0) carries timestamp t0 + k and the scenario's
\* id, and a run that has ended has yielded exactly max(0, duration_s).
C16_YieldsExactlyDuration ==
    \A g \in Generators :
        /\ Len(Produced(g)) <= Max(0, stream.sc.duration_s)
        /\ \A k \in 1 .. Len(Produced(g)) :
              /\ Produced(g)[k].timestamp = stream.t0 + (k - 1)
              /\ Produced(g)[k].scenario_id = stream.sc.scenario_id
        /\ Ended(g) => Len(Produced(g)) = Max(0, stream.sc.duration_s)

\* the seconds the incident window is asked about
WindowTimes == (-1 .. MaxDuration) \cup {2399, 2400, 3599, 3600}

InWindow(sc, t) == sc.incident_start_s <= t /\ t < sc.incident_end_s

\* C17: the incident flag of second t is 1 iff incident_start_s <= t <
\* incident_end_s; the Z3.EVT.Incident.Active tag of the snapshot of second
\* t is that flag; with start 2400 and end 3600 the flag is 0 at 2399, 1 at
\* 2400 and 3599, 0 at 3600.
C17_IncidentWindow ==
    /\ \A t \in WindowTimes :
          /\ incident_flag(stream.sc, t) \in {0, 1}
          /\ incident_flag(stream.sc, t) = 1 <=> InWindow(stream.sc, t)
    /\ stream.sc.incident_end_s <= stream.sc.incident_start_s
          => \A t \in WindowTimes : incident_flag(stream.sc, t) = 0
    /\ (stream.sc.incident_start_s = 2400 /\ stream.sc.incident_end_s = 3600)
          => << incident_flag(stream.sc, 2399), incident_flag(stream.sc, 2400),
                incident_flag(stream.sc, 3599), incident_flag(stream.sc, 3600) >>
                = <<0, 1, 1, 0>>
    /\ \A g \in Generators : \A k \in 1 .. Len(Produced(g)) :
          Produced(g)[k].tags["Z3.EVT.Incident.Active"]
              = IF InWindow(stream.sc, k - 1) THEN 1 ELSE 0

\* a window from second 1 to second 2: the snapshots of seconds 0, 1 and 2
\* carry 0, 1 and 0
C17_Witness ==
    /\ stream.sc.incident_start_s = 1 /\ stream.sc.incident_end_s = 2
    /\ Len(Produced("A")) = 3
    /\ Produced("A")[1].tags["Z3.EVT.Incident.Active"] = 0
    /\ Produced("A")[2].tags["Z3.EVT.Incident.Active"] = 1
    /\ Produced("A")[3].tags["Z3.EVT.Incident.Active"] = 0

\* C18: the capacity factor of every second is at least 0.1, whatever the
\* severity (inside or outside [0, 1]), the capacity drop and the activity
\* of incident and weather; when the incident term is at its own floor 0.1
\* and the weather multiplier 0.92 comes on top, the result is still 0.1.
C18_CapacityFloor ==
    probe.asked =>
        /\ probe.factor >= 100
        /\ (/\ incident_flag(probe.sc, probe.t_s) = 1
            /\ weather_flag(probe.sc, probe.t_s) = 1
            /\ IncidentCapacity(probe.sc) = 100) => probe.factor = 100

\* incident and weather both active, a severity above 1 and a drop that puts
\* the incident term at its floor: 0.1 * 0.92 = 0.092 is raised to 0.1
C18_Witness ==
    /\ probe.asked
    /\ incident_flag(probe.sc, probe.t_s) = 1 /\ weather_flag(probe.sc, probe.t_s) = 1
    /\ probe.sc.incident_severity > 1000
    /\ IncidentCapacity(probe.sc) = 100
    /\ probe.factor = 100

\* C19: every frame step returns, after any sequence of step, seek,
\* set_speed and set_paused, has schema 'tunnelai.viz.frame.v1', mode
\* 'playback' and at least 20 vehicles: the base count, or int(1.6 x base)
\* while the queue window is active at the frame's time.
C19_FrameSchema ==
    \A frame \in playback.frame :
        /\ frame.schema = "tunnelai.viz.frame.v1"
        /\ frame.mode = "playback"
        /\ frame.t = playback.state.t
        /\ Len(frame.vehicles) >= 20
        /\ Len(frame.vehicles) =
              IF _stau_active(playback.meta, frame.t)
              THEN (Max(20, DictGet(playback.meta.source, "q_in_base_veh_per_h", 2000) \div 30) * 16) \div 10
              ELSE Max(20, DictGet(playback.meta.source, "q_in_base_veh_per_h", 2000) \div 30)

\* a frame inside the queue window of a scenario whose inflow gives a base
\* count below 20: 32 vehicles, returned after a seek and a change of speed
C19_Witness ==
    /\ playback.op = "step" /\ playback.frame # {}
    /\ playback.meta.source # EmptyDict
    /\ playback.meta.source["q_in_base_veh_per_h"] = 300
    /\ playback.state.speed_factor = 25
    /\ playback.state.t = 150
    /\ \A frame \in playback.frame :
          /\ Len(frame.vehicles) = 32
          /\ frame.events = <<"STAU_MAIN">>

\* a returning step whose clamped proposal lies further from the previous
\* filtered stage than the ramp rate
RampCase ==
    /\ call'.op = "step" /\ ~call'.raised
    /\ "fan_stage" \in DOMAIN call'.rec
    /\ HasPrevFan(prev_filtered)
    /\ Abs(ClampedProposal(constraints, call') - PrevFan(prev_filtered))
          > constraints.max_fan_step_per_s

Direction == IF ClampedProposal(constraints, call') > PrevFan(prev_filtered) THEN 1 ELSE -1

\* C20 as stated: in the ramp case the filtered stage is the previous
\* filtered stage plus or minus exactly one, whatever max_fan_step_per_s.
C20_ExactlyOneStage ==
    [][ RampCase => RetOut'["fan_stage"] = PrevFan(prev_filtered) + Direction ]_vars

\* C20: in the ramp case the filtered stage is the previous filtered stage
\* plus or minus exactly max_fan_step_per_s, in the requested direction.
C20_ExactlyRateStages ==
    [][ RampCase => RetOut'["fan_stage"]
                      = PrevFan(prev_filtered) + constraints.max_fan_step_per_s * Direction ]_vars

\* rate 2, previous stage 0, proposal 3: the ramp rule returns 2
C20_Witness ==
    /\ Returned /\ constraints.max_fan_step_per_s = 2
    /\ "fan_stage" \in DOMAIN call.rec /\ call.rec["fan_stage"] = 3
    /\ RetOut["fan_stage"] = 2
    /\ \E i \in 1..Len(RetAudit.triggers) :
          /\ RetAudit.triggers[i].rule_id = "R_FAN_RAMP_RATE"
          /\ RetAudit.triggers[i].evidence.prev_fan_stage = 0
          /\ RetAudit.triggers[i].changed.fan_stage = <<3, 2>>

\* the run g yields a snapshot in this step
Yields(g) == Len(stream'.gen[g].out) = Len(stream.gen[g].out) + 1

LastOut(g) == stream'.gen[g].out[Len(stream'.gen[g].out)]

\* the fan stage of the iteration, from the state the previous one left
StageFromPrevious(g) ==
    fan_stage_with_hysteresis(
        IF stream.gen[g].pc = "created" THEN stream.sc.fan_stage
        ELSE stream.gen[g].fan_stage_dyn,
        stream.gen[g].emis.co_ppm \div 1000,
        vis_proxy_to_pct(stream.gen[g].emis.vis_proxy))

\* C21: in every iteration the fan stage is computed from the emission
\* state the previous iteration left (co = 10, vis_proxy = 0.02 in the
\* first), before traffic and emissions are advanced; that stage is the one
\* step_emissions is given and the one reported as Z1.VENT.FAN.F01.Stage.
C21_FanFromPreviousReading ==
    [][ \A g \in Generators : Yields(g) =>
          /\ stream.gen[g].pc = "created" =>
                /\ stream.gen[g].emis.co_ppm = 100000
                /\ stream.gen[g].emis.vis_proxy = 200
          /\ LastOut(g).tags["Z1.VENT.FAN.F01.Stage"] = StageFromPrevious(g)
          /\ stream'.gen[g].fan_stage_dyn = StageFromPrevious(g)
          /\ stream'.gen[g].emis =
                step_emissions(EmissionParams, stream.gen[g].emis,
                    stream'.gen[g].traffic.rho_veh_per_km, stream'.gen[g].traffic.v_kmh,
                    StageFromPrevious(g),
                    incident_flag(stream.sc, stream'.gen[g].t_s),
                    stream.sc.incident_severity,
                    HeavyRatio(stream.sc, stream'.gen[g].t_s, stream.gen[g].traffic)) ]_vars

\* a run started at fan stage 2 with CO at 10 ppm: the first snapshot
\* reports stage 1 and the second stage 0, each decided on the reading the
\* iteration before it left
C21_Witness ==
    /\ stream.sc.fan_stage = 2
    /\ Len(Produced("A")) >= 2
    /\ Produced("A")[1].tags["Z1.VENT.FAN.F01.Stage"] = 1
    /\ Produced("A")[2].tags["Z1.VENT.FAN.F01.Stage"] = 0
    /\ stream.gen["A"].fan_stage_dyn = Produced("A")[Len(Produced("A"))].tags["Z1.VENT.FAN.F01.Stage"]

\* the base setpoint of the second a run is about to yield: the configured
\* limit, lowered by the weather speed drop (not below 40) in the weather window
BaseSetpoint(g) ==
    IF /\ stream.sc.weather_start_s <= stream'.gen[g].t_s
       /\ stream'.gen[g].t_s < stream.sc.weather_end_s
    THEN Max(4000, stream.sc.vms_speed_limit_kmh - stream.sc.weather_speed_drop_kmh)
    ELSE stream.sc.vms_speed_limit_kmh

\* C22 as stated: the SpeedSet tag of every snapshot is max(40, configured
\* vms_speed_limit_kmh - 10 x queue_index before the step).
C22_SetpointFromConfiguredLimit ==
    [][ \A g \in Generators : Yields(g) =>
          LastOut(g).tags["Z1.VMS.SIGN.V01.SpeedSet"]
             = Max(4000, stream.sc.vms_speed_limit_kmh - stream.gen[g].traffic.queue_index) ]_vars

\* C22: the SpeedSet tag of every snapshot, which is also the setpoint of
\* that second's traffic step, is max(40, base - 10 x queue_index before
\* the step), the base being the configured limit outside the weather
\* window and max(40, limit - weather speed drop) inside; never below 40.
C22_SetpointFromControls ==
    [][ \A g \in Generators : Yields(g) =>
          /\ LastOut(g).tags["Z1.VMS.SIGN.V01.SpeedSet"]
                = Max(4000, BaseSetpoint(g) - stream.gen[g].traffic.queue_index)
          /\ LastOut(g).tags["Z1.VMS.SIGN.V01.SpeedSet"] >= 4000
          /\ stream'.gen[g].traffic =
                step_traffic(TrafficParams, stream.gen[g].traffic,
                    inflow(stream.sc, stream'.gen[g].t_s),
                    LastOut(g).tags["Z1.VMS.SIGN.V01.SpeedSet"],
                    capacity_factor(stream.sc, stream'.gen[g].t_s)) ]_vars

\* fog with a speed drop of 20 km/h from second 1 on: the sign shows 80 in
\* the snapshot of second 0 and 60 in that of second 1
C22_Witness ==
    /\ stream.sc.weather_speed_drop_kmh = 2000 /\ stream.sc.weather_start_s = 1
    /\ Len(Produced("A")) >= 2
    /\ Produced("A")[1].tags["Z1.VMS.SIGN.V01.SpeedSet"] = 8000
    /\ Produced("A")[2].tags["Z1.VMS.SIGN.V01.SpeedSet"] = 6000
    /\ Produced("A")[2].tags["Z3.EVT.Weather.Active"] = 1

ActiveAt(g, k) == k >= 1 /\ Produced(g)[k].tags["Z3.EVT.Incident.Active"] = 1

SnapshotsWith(g, tag) == {k \in 1 .. Len(Produced(g)) : Produced(g)[k].tags[tag] = 1}

\* C23: in the snapshots of a run Incident.Onset is 1 exactly where Active
\* is 1 and the preceding snapshot's Active was 0 or there is none, Offset
\* is 1 exactly where Active is 0 and the preceding Active was 1; the two
\* are never 1 together and each is 1 in at most one snapshot.
C23_OnsetOffsetEdges ==
    \A g \in Generators :
        /\ \A k \in 1 .. Len(Produced(g)) :
              /\ Produced(g)[k].tags["Z3.EVT.Incident.Onset"] \in {0, 1}
              /\ Produced(g)[k].tags["Z3.EVT.Incident.Offset"] \in {0, 1}
              /\ Produced(g)[k].tags["Z3.EVT.Incident.Onset"] = 1
                    <=> (ActiveAt(g, k) /\ ~ActiveAt(g, k - 1))
              /\ Produced(g)[k].tags["Z3.EVT.Incident.Offset"] = 1
                    <=> (~ActiveAt(g, k) /\ ActiveAt(g, k - 1))
              /\ ~(/\ Produced(g)[k].tags["Z3.EVT.Incident.Onset"] = 1
                   /\ Produced(g)[k].tags["Z3.EVT.Incident.Offset"] = 1)
        /\ Cardinality(SnapshotsWith(g, "Z3.EVT.Incident.Onset")) <= 1
        /\ Cardinality(SnapshotsWith(g, "Z3.EVT.Incident.Offset")) <= 1

\* an incident from second 1 to second 2: onset in the second snapshot,
\* offset in the third, neither in the first
C23_Witness ==
    /\ Len(Produced("B")) = 3
    /\ SnapshotsWith("B", "Z3.EVT.Incident.Onset") = {2}
    /\ SnapshotsWith("B", "Z3.EVT.Incident.Offset") = {3}
    /\ SnapshotsWith("B", "Z3.EVT.Incident.Active") = {2}

\* C24 as stated: in every R_FAN_RAMP_RATE trigger evidence.prev_fan_stage
\* is the previous filtered fan stage and evidence.proposed_after_clamp is
\* the before-value of the trigger's changed.fan_stage pair.
C24_RampEvidence ==
    [][ (call'.op = "step" /\ ~call'.raised) =>
          \A i \in 1 .. Len(RetAudit'.triggers) :
              RetAudit'.triggers[i].rule_id = "R_FAN_RAMP_RATE" =>
                  /\ RetAudit'.triggers[i].evidence.prev_fan_stage = PrevFan(prev_filtered)
                  /\ RetAudit'.triggers[i].evidence.proposed_after_clamp
                        = RetAudit'.triggers[i].changed.fan_stage[1] ]_vars

\* C25: with constraints, tag snapshot and prev_rec fixed, filtering the
\* filtered recommendation again returns without raising and returns the
\* same recommendation, also when the second pass reports violations.
C25_Idempotent ==
    twice.passes = 2 =>
        /\ ~twice.raised
        /\ Len(twice.results) = 2
        /\ twice.results[2].out = twice.results[1].out

\* an incident with displayed limit 50 below the band: both passes lock
\* and clamp the speed, the second still reporting violations on the
\* recommendation the first returned
C25_Witness ==
    /\ twice.passes = 2 /\ Len(twice.results) = 2
    /\ twice.results[1].out # twice.rec
    /\ twice.results[2].audit.violations # <<>>
    /\ twice.results[2].out = twice.results[1].out

\* the clamped target of the held proposal
Target == ClampedProposal(constraints, call)

AtTarget ==
    /\ HasPrevFan(prev_filtered) /\ PrevFan(prev_filtered) = Target
    /\ Returned /\ TriggerCount(RetAudit, "R_FAN_RAMP_RATE") = 0

\* C26 as stated: with the same fan_stage proposed by every step under an
\* unchanging tag snapshot and max_fan_step_per_s >= 1, the filtered fan
\* stage never moves away from the clamped target, reaches it after
\* finitely many steps and stays there without further ramp triggers.
C26_ReachesTarget ==
    /\ [][ (HasPrevFan(prev_filtered) /\ HasPrevFan(prev_filtered'))
             => Abs(PrevFan(prev_filtered') - Target) <= Abs(PrevFan(prev_filtered) - Target) ]_vars
    /\ <>[]AtTarget

\* a call that leaves the engine without a remembered fan stage: reset(), or
\* a returning step whose recommendation carries no fan_stage
Erasing(e) ==
    \/ e.op = "reset"
    \/ e.op = "step" /\ ~e.raised /\ "fan_stage" \notin DOMAIN e.rec

\* such a call was made and every call after it raised (a raising step
\* leaves the engine as it was)
MemoryErased ==
    \E i \in 1 .. Len(log) :
        /\ Erasing(log[i])
        /\ \A j \in (i + 1) .. Len(log) : log[j].raised

\* C27: after a returning step whose recommendation omits fan_stage, and
\* after reset(), prev_filtered holds no fan_stage; the fan stage of the
\* next returning step is then the proposal after the incident minimum and
\* the clamp to [0, max_fan_stage], with no R_FAN_RAMP_RATE trigger, whatever
\* fan stage the engine returned before.
C27_OmissionErasesRamp ==
    [][ /\ MemoryErased' => ~HasPrevFan(prev_filtered')
        /\ (/\ MemoryErased
            /\ call'.op = "step" /\ ~call'.raised
            /\ "fan_stage" \in DOMAIN call'.rec)
              => /\ RetOut'["fan_stage"] = ClampedProposal(constraints, call')
                 /\ TriggerCount(RetAudit', "R_FAN_RAMP_RATE") = 0 ]_vars

\* stage 0 returned, then a step without fan_stage, then a proposal of 3
\* returned as 3 although the rate is one stage per step
C27_Witness ==
    /\ Len(log) = 3
    /\ log[1].fan_stage = {0}
    /\ log[2].op = "step" /\ Erasing(log[2])
    /\ log[3].fan_stage = {3}
    /\ constraints.max_fan_step_per_s = 1

StageOf(g, k) == Produced(g)[k].tags["Z1.VENT.FAN.F01.Stage"]

\* C28 as stated: whatever integer the scenario's fan_stage is, no run
\* raises, and the Z1.VENT.FAN.F01.Stage tag of every snapshot is in
\* {0, 1, 2, 3} and differs from the preceding snapshot's by at most one.
C28_AnyStartStageRuns ==
    \A g \in Generators :
        /\ stream.gen[g].pc # "raised"
        /\ \A k \in 1 .. Len(Produced(g)) :
              /\ StageOf(g, k) \in 0 .. 3
              /\ k > 1 => Abs(StageOf(g, k) - StageOf(g, k - 1)) <= 1

InsideClock(state) ==
    /\ state.t.kind = "num"
    /\ 0 <= state.t.val
    /\ FloatLE(state.t, state.duration_s)
    /\ FloatLE(Num(1), state.speed_factor)

\* C29: with duration_s >= 0, after any sequence of step, seek, set_speed
\* and set_paused, called directly or through control messages,
\* 0 <= t <= duration_s and speed_factor >= 0.1; a step taken while paused
\* leaves t as it was and a step taken while playing never decreases t.
C29_ClockStaysInside ==
    /\ InsideClock(control.state)
    /\ [][ /\ InsideClock(control'.state)
           /\ control'.op = "step" =>
                 IF control.state.paused THEN control'.state.t = control.state.t
                 ELSE FloatLE(control.state.t, control'.state.t) ]_vars

\* a nan seek time came in a control message, was accepted, and left the
\* clock of an engine running at speed inf at 0
C29_Witness ==
    /\ control.op = "control" /\ control.ok
    /\ control.msg = {ControlMessage("object", "CONTROL", "seek", {NaN})}
    /\ control.state.t = Num(0)
    /\ control.state.speed_factor = PosInf

\* C30 as stated: a get_or_create call whose session_id names an existing
\* session returns a session whose scenario_id is the scenario_id argument.
C30_ReturnsRequestedScenario ==
    (/\ manager.op = "get_or_create"
     /\ Truthy(manager.session_id)
     /\ manager.returned # {})
        => \A session \in manager.returned : session.scenario_id = manager.scenario_id

====
